---- MODULE Spec2Model ----
(***************************************************************************)
(* A model of the session core of the lark editor: the layout tree         *)
(* (editor/layout.rs), panes (editor/pane.rs), tabs (editor/tab.rs) and    *)
(* the key sequence matcher (input/keymap.rs).                             *)
(*                                                                         *)
(* Spec        drives one Tab through its public operations.               *)
(* SpecLayout  drives one Layout through split_pane, add_left_pane and     *)
(*             remove_pane.                                                *)
(* SpecKeys    drives one KeySequenceState through process_key.            *)
(* SpecTabs    drives the tabs of one Workspace through new_tab, next_tab, *)
(*             prev_tab and close_tab.                                     *)
(***************************************************************************)
EXTENDS Integers, Sequences, FiniteSets, TLC

VARIABLES
    tab,     \* the Tab under test (Spec)
    layout,  \* the Layout under test (SpecLayout)
    op,      \* name of the operation that produced the current state
    args,    \* the inputs of that operation (recorded for Layout operations)
    ret,     \* the value that operation returned
    key_seq, \* the KeySequenceState under test (SpecKeys)
    workspace,   \* the Workspace under test (SpecTabs, SpecHandler)
    input_state  \* the InputState of the dispatcher (SpecHandler)

vars == <<tab, layout, op, args, ret, key_seq, workspace, input_state>>

----------------------------------------------------------------------------
(* Bounds of the model *)

\* pane ids a Tab may allocate: next_pane_id never exceeds this
MaxPaneId == 4
\* leaves a Layout may hold in SpecLayout; its pane ids are 0..MaxLeaves
MaxLeaves == 3
\* largest width and height of the screen areas handed to calculate_rects
MaxSide == 5
\* decimal digits a count prefix may be typed with in SpecKeys
MaxDigits == 2
\* tabs a Workspace may hold in SpecTabs
MaxTabs == 3
\* pane ids a tab of that Workspace may allocate
MaxTabPaneId == 3
\* SpecHandler: pane ids one tab hands out, lines of a buffer, characters of
\* a line, characters of the command line and digits of a count
MaxHandlerPaneId == 3
MaxLines == 1
MaxLineLen == 1
MaxCommandLen == 1
MaxHandlerDigits == 1
MaxCommandLineLen == 2

\* the files on disk
Paths == {"a.rs"}
NoArgs == <<>>
NoRet == "unit"
None == [kind |-> "None"]
Some(v) == [kind |-> "Some", value |-> v]

----------------------------------------------------------------------------
(* editor/layout.rs: Rect *)

Rect_new(x, y, width, height) ==
    [x |-> x, y |-> y, width |-> width, height |-> height]

\* f32 ratios are kept as their exact value times 2^26
F32Scale == 2 ^ 26
Ratio_0_5 == 33554432         \* 0.5f32  = 2^25 / 2^26
Ratio_0_2 == 13421773         \* 0.2f32  = 0x3E4CCCCD = 13421773 / 2^26
Ratios == {Ratio_0_5, Ratio_0_2}

Pow2(n) == 2 ^ n

\* (n as f32 * ratio) as u16: the exact product n * ratio is rounded to the
\* 24-bit significand of an f32 (ties to even) and then truncated toward zero
MulF32AsU16(n, ratio) ==
    LET p == n * ratio
        s == CHOOSE k \in 0..6 : p < Pow2(24 + k) /\ (k = 0 \/ p >= Pow2(23 + k))
        q == p \div Pow2(s)
        r == p % Pow2(s)
        half == IF s = 0 THEN 0 ELSE Pow2(s - 1)
        up == s > 0 /\ (r > half \/ (r = half /\ q % 2 = 1))
        rounded == (IF up THEN q + 1 ELSE q) * Pow2(s)
    IN  rounded \div F32Scale

Rect_split_horizontal(self, ratio) ==
    LET split_y == self.y + MulF32AsU16(self.height, ratio)
        top == Rect_new(self.x, self.y, self.width, split_y - self.y)
        bottom == Rect_new(self.x, split_y, self.width,
                           self.height - (split_y - self.y))
    IN  <<top, bottom>>

\* Rect::split_vertical taking split_x for the width of the left part
Rect_split_vertical_abs(self, ratio) ==
    LET split_x == self.x + MulF32AsU16(self.width, ratio)
        left == Rect_new(self.x, self.y, split_x, self.height)
        right == Rect_new(split_x, self.y, self.width - split_x, self.height)
    IN  <<left, right>>

Rect_split_vertical(self, ratio) ==
    LET split_x == self.x + MulF32AsU16(self.width, ratio)
        left == Rect_new(self.x, self.y, split_x - self.x, self.height)
        right == Rect_new(split_x, self.y,
                          self.width - (split_x - self.x), self.height)
    IN  <<left, right>>

----------------------------------------------------------------------------
(* editor/layout.rs: LayoutNode *)

Pane(id) == [kind |-> "Pane", id |-> id]

Split(direction, ratio, first, second) ==
    [kind |-> "Split", direction |-> direction, ratio |-> ratio,
     first |-> first, second |-> second]

RECURSIVE calculate_rects(_, _)
calculate_rects(node, area) ==
    IF node.kind = "Pane"
    THEN <<[id |-> node.id, rect |-> area]>>
    ELSE LET areas == IF node.direction = "Horizontal"
                      THEN Rect_split_horizontal(area, node.ratio)
                      ELSE Rect_split_vertical(area, node.ratio)
         IN  calculate_rects(node.first, areas[1])
                 \o calculate_rects(node.second, areas[2])

RECURSIVE collect_pane_ids(_)
collect_pane_ids(node) ==
    IF node.kind = "Pane"
    THEN <<node.id>>
    ELSE collect_pane_ids(node.first) \o collect_pane_ids(node.second)

RECURSIVE LayoutNode_remove_pane(_, _)
\* LayoutNode::remove_pane rebuilding a surviving Split with an even ratio
remove_pane_even_ratio(node, target_id) ==
    IF node.kind = "Pane"
    THEN IF node.id = target_id THEN None ELSE Some(node)
    ELSE LET first_removed == LayoutNode_remove_pane(node.first, target_id)
             second_removed == LayoutNode_remove_pane(node.second, target_id)
         IN  CASE first_removed = None /\ second_removed = None -> None
               [] first_removed # None /\ second_removed = None -> first_removed
               [] first_removed = None /\ second_removed # None -> second_removed
               [] OTHER -> Some(Split(node.direction, Ratio_0_5,
                                      first_removed.value, second_removed.value))

LayoutNode_remove_pane(node, target_id) ==
    IF node.kind = "Pane"
    THEN IF node.id = target_id THEN None ELSE Some(node)
    ELSE LET first_removed == LayoutNode_remove_pane(node.first, target_id)
             second_removed == LayoutNode_remove_pane(node.second, target_id)
         IN  CASE first_removed = None /\ second_removed = None -> None
               [] first_removed # None /\ second_removed = None -> first_removed
               [] first_removed = None /\ second_removed # None -> second_removed
               [] OTHER -> Some(Split(node.direction, node.ratio,
                                      first_removed.value, second_removed.value))

----------------------------------------------------------------------------
(* editor/layout.rs: Layout *)

Layout_new(initial_pane) == [root |-> Pane(initial_pane)]

Layout_calculate_rects(self, area) == calculate_rects(self.root, area)

pane_ids(self) == collect_pane_ids(self.root)

RECURSIVE split_node(_, _, _, _)
\* split_node putting the new pane first and the target second
split_node_new_first(node, target_id, new_id, direction) ==
    IF node.kind = "Pane"
    THEN IF node.id = target_id
         THEN Split(direction, Ratio_0_5, Pane(new_id), Pane(node.id))
         ELSE node
    ELSE Split(node.direction, node.ratio,
               split_node(node.first, target_id, new_id, direction),
               split_node(node.second, target_id, new_id, direction))

split_node(node, target_id, new_id, direction) ==
    IF node.kind = "Pane"
    THEN IF node.id = target_id
         THEN Split(direction, Ratio_0_5, Pane(node.id), Pane(new_id))
         ELSE node
    ELSE Split(node.direction, node.ratio,
               split_node(node.first, target_id, new_id, direction),
               split_node(node.second, target_id, new_id, direction))

split_pane(self, pane_id, new_pane_id, direction) ==
    [self EXCEPT !.root = split_node(self.root, pane_id, new_pane_id, direction)]

add_left_pane(self, new_pane_id, ratio) ==
    [self EXCEPT !.root = Split("Vertical", ratio, Pane(new_pane_id), self.root)]

\* the root is swapped for the placeholder Pane(0) while the tree is rebuilt;
\* when the node-level removal yields nothing the placeholder stays
Layout_remove_pane(self, pane_id) ==
    LET removed == LayoutNode_remove_pane(self.root, pane_id)
    IN  IF removed # None
        THEN [layout |-> [self EXCEPT !.root = removed.value], ret |-> TRUE]
        ELSE [layout |-> [self EXCEPT !.root = Pane(0)], ret |-> FALSE]

----------------------------------------------------------------------------
(* editor/cursor.rs, editor/buffer.rs, editor/pane.rs *)

Cursor_new == [line |-> 0, col |-> 0]

\* a buffer is known by the file it was loaded from, by the lengths of its
\* lines (newline excluded) and by its dirty flag; an empty rope has one
\* empty line
Buffer_new == [filepath |-> None, lines |-> <<0>>, dirty |-> FALSE]

\* the lines of a file on disk: the one character "a", no final newline
FileLines(path) == <<1>>
Buffer_from_file(path) ==
    [filepath |-> Some(path), lines |-> FileLines(path), dirty |-> FALSE]

line_count(self) == Len(self.lines)
line_len(self, idx) == self.lines[idx + 1]

\* Buffer::insert_char for a character other than newline, at a column
\* within the line
insert_char(self, line, col) ==
    [self EXCEPT !.lines[line + 1] = @ + 1, !.dirty = TRUE]

\* Buffer::insert_newline: the line is cut at the column
insert_newline(self, line, col) ==
    LET len == self.lines[line + 1]
    IN  [self EXCEPT
           !.lines = [i \in 1..(Len(self.lines) + 1) |->
                        IF i <= line THEN self.lines[i]
                        ELSE IF i = line + 1 THEN col
                        ELSE IF i = line + 2 THEN len - col
                        ELSE self.lines[i - 1]],
           !.dirty = TRUE]

\* Buffer::delete_char_backward: the character before the column, or the
\* newline that ends the line above
delete_char_backward(self, line, col) ==
    IF col > 0
    THEN IF col - 1 < self.lines[line + 1]
         THEN [self EXCEPT !.lines[line + 1] = @ - 1, !.dirty = TRUE]
         ELSE self
    ELSE IF line > 0
    THEN [self EXCEPT
            !.lines = [i \in 1..(Len(self.lines) - 1) |->
                         IF i < line THEN self.lines[i]
                         ELSE IF i = line THEN self.lines[line] + self.lines[line + 1]
                         ELSE self.lines[i + 1]],
            !.dirty = TRUE]
    ELSE self

\* usize::saturating_sub
saturating_sub(a, b) == IF a >= b THEN a - b ELSE 0

move_left(self) == IF self.col > 0 THEN [self EXCEPT !.col = @ - 1] ELSE self

\* col += 1, then clamp(0, line_len)
move_right(self, len) ==
    [self EXCEPT !.col = IF @ + 1 > len THEN len ELSE @ + 1]

move_up(self) == IF self.line > 0 THEN [self EXCEPT !.line = @ - 1] ELSE self

\* line += 1, then clamp(0, line_count - 1)
move_down(self, count) ==
    [self EXCEPT !.line = IF @ + 1 > count - 1 THEN count - 1 ELSE @ + 1]

new_editor(id) ==
    [id |-> id, kind |-> "Editor", buffer |-> Buffer_new, cursor |-> Cursor_new,
     scroll_offset |-> 0, scroll_col |-> 0, mode |-> "Normal"]

new_file_browser(id) ==
    [id |-> id, kind |-> "FileBrowser", buffer |-> Buffer_new,
     cursor |-> Cursor_new, scroll_offset |-> 0, scroll_col |-> 0,
     mode |-> "FileBrowser"]

----------------------------------------------------------------------------
(* editor/tab.rs: Tab *)

\* HashMap::insert and HashMap::remove on the pane map
MapInsert(m, k, v) == [x \in DOMAIN m \cup {k} |-> IF x = k THEN v ELSE m[x]]
MapRemove(m, k) == [x \in DOMAIN m \ {k} |-> m[x]]

\* Iterator::position: index (from 1) of the first element equal to v, 0 if none
Position(seq, v) ==
    IF \E i \in 1..Len(seq) : seq[i] = v
    THEN CHOOSE i \in 1..Len(seq) : seq[i] = v /\ \A j \in 1..(i - 1) : seq[j] # v
    ELSE 0

Tab_new ==
    [panes |-> MapInsert(<<>>, 0, new_editor(0)),
     layout |-> Layout_new(0),
     focused_pane_id |-> 0,
     next_pane_id |-> 1,
     file_browser_pane_id |-> None]

\* Tab::split_vertical moving the focus to the pane it creates
split_vertical_focus_new(self) ==
    LET new_id == self.next_pane_id
    IN  [self EXCEPT !.next_pane_id = new_id + 1,
                     !.panes = MapInsert(@, new_id, new_editor(new_id)),
                     !.layout = split_pane(@, self.focused_pane_id, new_id, "Vertical"),
                     !.focused_pane_id = new_id]

Tab_split_vertical(self) ==
    LET new_id == self.next_pane_id
    IN  [self EXCEPT !.next_pane_id = new_id + 1,
                     !.panes = MapInsert(@, new_id, new_editor(new_id)),
                     !.layout = split_pane(@, self.focused_pane_id, new_id, "Vertical")]

Tab_split_horizontal(self) ==
    LET new_id == self.next_pane_id
    IN  [self EXCEPT !.next_pane_id = new_id + 1,
                     !.panes = MapInsert(@, new_id, new_editor(new_id)),
                     !.layout = split_pane(@, self.focused_pane_id, new_id, "Horizontal")]

Tab_focus_next(self) ==
    LET ids == pane_ids(self.layout)
        pos == Position(ids, self.focused_pane_id)
    IN  IF pos # 0
        THEN [self EXCEPT !.focused_pane_id = ids[(pos % Len(ids)) + 1]]
        ELSE self

\* Tab::get_editor_panes_with_labels without the filter on the pane kind
labels_for_all_panes(self) ==
    LET ids == pane_ids(self.layout)
    IN  [i \in 1..Len(ids) |-> [label |-> (97 + ((i - 1) % 256)) % 256, id |-> ids[i]]]

\* the panes of the layout that the map knows as Editor panes, in layout
\* order, each with the u8 code b'a' + i of its label
get_editor_panes_with_labels(self) ==
    LET IsEditor(id) == id \in DOMAIN self.panes /\ self.panes[id].kind = "Editor"
        editors == SelectSeq(pane_ids(self.layout), IsEditor)
    IN  [i \in 1..Len(editors) |->
            [label |-> (97 + ((i - 1) % 256)) % 256, id |-> editors[i]]]
        \* b'a' + i as u8, wrapping at 256 as the release build does

\* Iterator::find over the labelled panes: the first entry with the label
FindLabel(labeled, label) ==
    LET pos == Position([i \in 1..Len(labeled) |-> labeled[i].label], label)
    IN  IF pos = 0 THEN None ELSE Some(labeled[pos].id)

Tab_focus_pane_by_label(self, label) ==
    LET found == FindLabel(get_editor_panes_with_labels(self), label)
    IN  IF found # None
        THEN [tab |-> [self EXCEPT !.focused_pane_id = found.value], ret |-> TRUE]
        ELSE [tab |-> self, ret |-> FALSE]

Tab_open_file_in_pane(self, path, label) ==
    LET found == FindLabel(get_editor_panes_with_labels(self), label)
    IN  IF found # None /\ found.value \in DOMAIN self.panes
        THEN [tab |-> [self EXCEPT
                         !.panes[found.value].buffer = Buffer_from_file(path),
                         !.panes[found.value].cursor = Cursor_new,
                         !.panes[found.value].scroll_offset = 0,
                         !.focused_pane_id = found.value],
              ret |-> TRUE]
        ELSE [tab |-> self, ret |-> FALSE]

\* Tab::close_focused_pane keeping file_browser_pane_id when it closes the
\* file browser
close_keeps_browser_reference(self) ==
    IF Len(pane_ids(self.layout)) <= 1
    THEN [tab |-> self, ret |-> FALSE]
    ELSE LET closed_id == self.focused_pane_id
             focused == Tab_focus_next(self)
         IN  [tab |-> [focused EXCEPT
                         !.layout = Layout_remove_pane(@, closed_id).layout,
                         !.panes = MapRemove(@, closed_id)],
              ret |-> TRUE]

Tab_close_focused_pane(self) ==
    IF Len(pane_ids(self.layout)) <= 1
    THEN [tab |-> self, ret |-> FALSE]
    ELSE LET cleared == IF Some(self.focused_pane_id) = self.file_browser_pane_id
                        THEN [self EXCEPT !.file_browser_pane_id = None]
                        ELSE self
             closed_id == self.focused_pane_id
             focused == Tab_focus_next(cleared)
         IN  [tab |-> [focused EXCEPT
                         !.layout = Layout_remove_pane(@, closed_id).layout,
                         !.panes = MapRemove(@, closed_id)],
              ret |-> TRUE]

\* Tab::open_file_browser leaving next_pane_id as it was
open_file_browser_reusing_id(self) ==
    LET new_id == self.next_pane_id
    IN  [self EXCEPT !.panes = MapInsert(@, new_id, new_file_browser(new_id)),
                     !.layout = add_left_pane(@, new_id, Ratio_0_2),
                     !.file_browser_pane_id = Some(new_id),
                     !.focused_pane_id = new_id]

Tab_open_file_browser(self) ==
    LET new_id == self.next_pane_id
    IN  [self EXCEPT !.next_pane_id = new_id + 1,
                     !.panes = MapInsert(@, new_id, new_file_browser(new_id)),
                     !.layout = add_left_pane(@, new_id, Ratio_0_2),
                     !.file_browser_pane_id = Some(new_id),
                     !.focused_pane_id = new_id]

\* Tab::toggle_file_browser closing the browser without taking its leaf out
\* of the layout
toggle_keeps_layout_leaf(self) ==
    IF self.file_browser_pane_id # None
    THEN LET fb_id == self.file_browser_pane_id.value
             focused == IF self.focused_pane_id = fb_id
                        THEN Tab_focus_next(self)
                        ELSE self
         IN  [focused EXCEPT !.panes = MapRemove(@, fb_id),
                             !.file_browser_pane_id = None]
    ELSE Tab_open_file_browser(self)

Tab_toggle_file_browser(self) ==
    IF self.file_browser_pane_id # None
    THEN LET fb_id == self.file_browser_pane_id.value
             focused == IF self.focused_pane_id = fb_id
                        THEN Tab_focus_next(self)
                        ELSE self
         IN  [focused EXCEPT !.layout = Layout_remove_pane(@, fb_id).layout,
                             !.panes = MapRemove(@, fb_id),
                             !.file_browser_pane_id = None]
    ELSE Tab_open_file_browser(self)

Tab_focus_file_browser(self) ==
    IF self.file_browser_pane_id # None
    THEN [self EXCEPT !.focused_pane_id = self.file_browser_pane_id.value]
    ELSE Tab_open_file_browser(self)

\* Layout::find_pane_in_direction (spec 4.1): among the other panes whose
\* rect lies beyond the rect of `from` along the direction and overlaps it
\* on the other axis, the nearest one, the larger overlap winning a tie
Min(a, b) == IF a < b THEN a ELSE b
Max(a, b) == IF a > b THEN a ELSE b
\* whether rectangle c lies wholly on the asked side of rectangle r
Beyond(c, r, direction) ==
    CASE direction = "Left" -> c.x + c.width <= r.x
      [] direction = "Right" -> c.x >= r.x + r.width
      [] direction = "Up" -> c.y + c.height <= r.y
      [] direction = "Down" -> c.y >= r.y + r.height

\* the gap between r and c along the direction
Distance(c, r, direction) ==
    CASE direction = "Left" -> r.x - (c.x + c.width)
      [] direction = "Right" -> c.x - (r.x + r.width)
      [] direction = "Up" -> r.y - (c.y + c.height)
      [] direction = "Down" -> c.y - (r.y + r.height)

\* the length r and c share across the direction
Shared(c, r, direction) ==
    IF direction \in {"Left", "Right"}
    THEN Min(c.y + c.height, r.y + r.height) - Max(c.y, r.y)
    ELSE Min(c.x + c.width, r.x + r.width) - Max(c.x, r.x)

\* candidate c (the i-th rectangle) is at least as good as d (the j-th):
\* nearer, then sharing more, then earlier in the order of the rectangles
Better(c, i, d, j, r, direction) ==
    \/ Distance(c, r, direction) < Distance(d, r, direction)
    \/ /\ Distance(c, r, direction) = Distance(d, r, direction)
       /\ \/ Shared(c, r, direction) > Shared(d, r, direction)
          \/ /\ Shared(c, r, direction) = Shared(d, r, direction)
             /\ i <= j

\* the pane of rects nearest to pane from in the direction
nearest_in_direction(rects, from, direction) ==
    LET pos == Position([i \in 1..Len(rects) |-> rects[i].id], from)
        candidates == {i \in 1..Len(rects) :
                          /\ i # pos
                          /\ Beyond(rects[i].rect, rects[pos].rect, direction)
                          /\ Shared(rects[i].rect, rects[pos].rect, direction) > 0}
    IN  IF pos = 0 \/ candidates = {}
        THEN None
        ELSE Some(rects[CHOOSE i \in candidates :
                            \A j \in candidates :
                                Better(rects[i].rect, i, rects[j].rect, j,
                                       rects[pos].rect, direction)].id)

find_pane_in_direction(self, from, direction, area) ==
    nearest_in_direction(Layout_calculate_rects(self, area), from, direction)

Tab_focus_direction(self, direction, area) ==
    LET target == find_pane_in_direction(self.layout, self.focused_pane_id,
                                         direction, area)
    IN  IF target # None
        THEN [self EXCEPT !.focused_pane_id = target.value]
        ELSE self

\* Tab::try_open_file_from_browser; selected is what FileBrowser::select
\* returns: the file under the selection, or None on a directory or on
\* an empty listing
Tab_try_open_file_from_browser(self, selected) ==
    LET editor_panes == get_editor_panes_with_labels(self)
    IN  IF Len(editor_panes) <= 1
        THEN IF selected # None /\ Len(editor_panes) >= 1
             THEN LET pane_id == editor_panes[1].id
                  IN  [tab |-> [self EXCEPT
                                  !.panes[pane_id].buffer = Buffer_from_file(selected.value),
                                  !.panes[pane_id].cursor = Cursor_new,
                                  !.panes[pane_id].scroll_offset = 0,
                                  !.focused_pane_id = pane_id],
                       ret |-> None]
             ELSE [tab |-> self, ret |-> None]
        ELSE [tab |-> self, ret |-> selected]

----------------------------------------------------------------------------
(* input/keymap.rs: Key, Action, KeySequenceState *)

\* KeyModifiers as the set of flags that are on
NONE == {}
CONTROL == {"CONTROL"}

\* a KeyCode is the character of KeyCode::Char(c) or the name of another code
NamedCodes == {"Esc", "Enter", "Backspace", "Left", "Right", "Up", "Down"}
IsChar(code) == code \notin NamedCodes

Key_new(code, modifiers) == [code |-> code, modifiers |-> modifiers]
Key_char(c) == Key_new(c, NONE)
Key_ctrl(c) == Key_new(c, CONTROL)

\* char::is_ascii_lowercase, char::is_ascii_digit, char::to_digit(10)
AsciiLowercase ==
    {"a", "b", "c", "d", "e", "f", "g", "h", "i", "j", "k", "l", "m",
     "n", "o", "p", "q", "r", "s", "t", "u", "v", "w", "x", "y", "z"}
AsciiDigits == {"0", "1", "2", "3", "4", "5", "6", "7", "8", "9"}
to_digit(c) ==
    CASE c = "0" -> 0 [] c = "1" -> 1 [] c = "2" -> 2 [] c = "3" -> 3
      [] c = "4" -> 4 [] c = "5" -> 5 [] c = "6" -> 6 [] c = "7" -> 7
      [] c = "8" -> 8 [] c = "9" -> 9

\* an Action: its variant, and the label of SelectPane(char)
Act(name) == [name |-> name, label |-> ""]
SelectPane(c) == [name |-> "SelectPane", label |-> c]

\* MatchResult
Complete(action) == [kind |-> "Complete", action |-> action]
Prefix == [kind |-> "Prefix"]
NoMatch == [kind |-> "NoMatch"]
\* Option<Action> of a match arm, turned into the MatchResult returned
FromOption(found) == IF found = None THEN NoMatch ELSE Complete(found.value)

\* KeyResult
Action(action, count) == [kind |-> "Action", action |-> action, count |-> count]
Pending == [kind |-> "Pending"]
Unhandled == [kind |-> "Unhandled"]
Cancelled == [kind |-> "Cancelled"]

\* the timeout of new(), in milliseconds
Timeout == 1000

\* last_key_time is not kept: process_key sets it to the time of the call, so
\* all a call sees of it is the time elapsed since the call before
KeySequenceState_new ==
    [pending |-> <<>>, waiting_for_pane_select |-> FALSE, count |-> None]

\* input/handler.rs: InputState::new
InputState_new == [key_seq |-> KeySequenceState_new, pending_file_path |-> None]

\* CtrlWCommand with the two splits exchanged
CtrlWCommand_splits_swapped(code) ==
    CASE code \in {"h", "Left"} -> Some(Act("FocusLeft"))
      [] code \in {"j", "Down"} -> Some(Act("FocusDown"))
      [] code \in {"k", "Up"} -> Some(Act("FocusUp"))
      [] code \in {"l", "Right"} -> Some(Act("FocusRight"))
      [] code = "w" -> Some(Act("FocusNext"))
      [] code = "v" -> Some(Act("SplitHorizontal"))
      [] code = "s" -> Some(Act("SplitVertical"))
      [] OTHER -> None

\* the second key of a Ctrl-W chord
CtrlWCommand(code) ==
    CASE code \in {"h", "Left"} -> Some(Act("FocusLeft"))
      [] code \in {"j", "Down"} -> Some(Act("FocusDown"))
      [] code \in {"k", "Up"} -> Some(Act("FocusUp"))
      [] code \in {"l", "Right"} -> Some(Act("FocusRight"))
      [] code = "w" -> Some(Act("FocusNext"))
      [] code = "v" -> Some(Act("SplitVertical"))
      [] code = "s" -> Some(Act("SplitHorizontal"))
      [] OTHER -> None

\* a single key held with Control
ControlCommand(code) ==
    CASE code = "d" -> Some(Act("PageDown"))
      [] code = "u" -> Some(Act("PageUp"))
      [] code = "c" -> Some(Act("Quit"))
      [] OTHER -> None

\* the second key after the leader, and the third after leader f
LeaderCommand(code) ==
    CASE code = "f" -> Some(Act("LeaderKey"))
      [] code = "g" -> Some(Act("Grep"))
      [] code = "e" -> Some(Act("FocusFileBrowser"))
      [] OTHER -> None
LeaderFileCommand(code) ==
    CASE code = "f" -> Some(Act("FindFile"))
      [] code = "g" -> Some(Act("Grep"))
      [] OTHER -> None

\* the second key after t
TabCommand(code) ==
    CASE code = "t" -> Some(Act("NewTab"))
      [] code = "n" -> Some(Act("NextTab"))
      [] code = "p" -> Some(Act("PrevTab"))
      [] code = "c" -> Some(Act("CloseTab"))
      [] OTHER -> None

\* the single-key commands of normal mode and of insert mode
NormalCommand(code) ==
    CASE code \in {"h", "Left"} -> Some(Act("MoveLeft"))
      [] code \in {"j", "Down"} -> Some(Act("MoveDown"))
      [] code \in {"k", "Up"} -> Some(Act("MoveUp"))
      [] code \in {"l", "Right"} -> Some(Act("MoveRight"))
      [] code = "0" -> Some(Act("MoveToLineStart"))
      [] code = "$" -> Some(Act("MoveToLineEnd"))
      [] code = "G" -> Some(Act("MoveToLastLine"))
      [] code = "w" -> Some(Act("MoveWordForward"))
      [] code = "b" -> Some(Act("MoveWordBackward"))
      [] code = "e" -> Some(Act("MoveWordEnd"))
      [] code = "i" -> Some(Act("EnterInsertMode"))
      [] code = "a" -> Some(Act("EnterInsertModeAppend"))
      [] code = "A" -> Some(Act("EnterInsertModeAppendLine"))
      [] code = "o" -> Some(Act("EnterInsertModeOpenBelow"))
      [] code = "O" -> Some(Act("EnterInsertModeOpenAbove"))
      [] code = ":" -> Some(Act("EnterCommandMode"))
      [] code = "Esc" -> Some(Act("EnterNormalMode"))
      [] OTHER -> None
InsertCommand(code) ==
    CASE code = "Esc" -> Some(Act("EnterNormalMode"))
      [] code = "Left" -> Some(Act("MoveLeft"))
      [] code = "Right" -> Some(Act("MoveRight"))
      [] code = "Up" -> Some(Act("MoveUp"))
      [] code = "Down" -> Some(Act("MoveDown"))
      [] OTHER -> None

\* match_mode_commands without the g g chord: g is a key like any other
match_mode_commands_without_gg(pending, mode) ==
    LET n == Len(pending)
    IN  IF mode = "normal" /\ n = 1 /\ pending[1] = Key_char("t")
        THEN Prefix
        ELSE IF mode = "normal" /\ n = 2 /\ pending[1] = Key_char("t")
        THEN FromOption(TabCommand(pending[2].code))
        ELSE IF mode = "normal" /\ n = 1
        THEN FromOption(NormalCommand(pending[1].code))
        ELSE IF mode = "insert" /\ n = 1
        THEN FromOption(InsertCommand(pending[1].code))
        ELSE NoMatch

\* the tail of match_sequence: the commands of normal mode and of insert mode
match_mode_commands(pending, mode) ==
    LET n == Len(pending)
    IN  IF mode = "normal" /\ n > 0 /\ pending[1] = Key_char("g")
        THEN IF n = 1
             THEN Prefix
             ELSE IF n = 2 /\ pending[2] = Key_char("g")
                  THEN Complete(Act("MoveToFirstLine"))
                  ELSE NoMatch
        ELSE IF mode = "normal" /\ n = 1 /\ pending[1] = Key_char("t")
        THEN Prefix
        ELSE IF mode = "normal" /\ n = 2 /\ pending[1] = Key_char("t")
        THEN FromOption(TabCommand(pending[2].code))
        ELSE IF mode = "normal" /\ n = 1
        THEN FromOption(NormalCommand(pending[1].code))
        ELSE IF mode = "insert" /\ n = 1
        THEN FromOption(InsertCommand(pending[1].code))
        ELSE NoMatch

\* match_leader taking the leader chords in every mode
match_leader_in_any_mode(pending, mode) ==
    LET n == Len(pending)
    IN  IF n > 0 /\ pending[1] = Key_char(" ")
        THEN IF n = 1
             THEN Prefix
             ELSE IF n = 2 /\ LeaderCommand(pending[2].code) # None
             THEN IF LeaderCommand(pending[2].code).value = Act("LeaderKey")
                  THEN Prefix
                  ELSE Complete(LeaderCommand(pending[2].code).value)
             ELSE IF n = 3 /\ pending[2] = Key_char("f")
             THEN FromOption(LeaderFileCommand(pending[3].code))
             ELSE match_mode_commands(pending, mode)
        ELSE match_mode_commands(pending, mode)

\* match_leader letting a leader-f chord wait for further keys when the
\* third key is not one of its commands
match_leader_file_open_ended(pending, mode) ==
    LET n == Len(pending)
    IN  IF n > 0 /\ pending[1] = Key_char(" ") /\ mode = "normal"
        THEN IF n = 1
             THEN Prefix
             ELSE IF n = 2 /\ LeaderCommand(pending[2].code) # None
             THEN IF LeaderCommand(pending[2].code).value = Act("LeaderKey")
                  THEN Prefix
                  ELSE Complete(LeaderCommand(pending[2].code).value)
             ELSE IF n >= 3 /\ pending[2] = Key_char("f")
             THEN IF LeaderFileCommand(pending[n].code) # None
                  THEN Complete(LeaderFileCommand(pending[n].code).value)
                  ELSE Prefix
             ELSE match_mode_commands(pending, mode)
        ELSE match_mode_commands(pending, mode)

\* the leader chords of match_sequence, falling through to the mode commands
match_leader(pending, mode) ==
    LET n == Len(pending)
    IN  IF n > 0 /\ pending[1] = Key_char(" ") /\ mode = "normal"
        THEN IF n = 1
             THEN Prefix
             ELSE IF n = 2 /\ LeaderCommand(pending[2].code) # None
             THEN IF LeaderCommand(pending[2].code).value = Act("LeaderKey")
                  THEN Prefix
                  ELSE Complete(LeaderCommand(pending[2].code).value)
             ELSE IF n = 3 /\ pending[2] = Key_char("f")
             THEN FromOption(LeaderFileCommand(pending[3].code))
             ELSE match_mode_commands(pending, mode)
        ELSE match_mode_commands(pending, mode)

match_sequence(pending, mode) ==
    LET n == Len(pending)
    IN  IF n = 1 /\ pending[1] = Key_ctrl("w")
        THEN Prefix
        ELSE IF n = 2 /\ pending[1] = Key_ctrl("w")
        THEN FromOption(CtrlWCommand(pending[2].code))
        ELSE IF n = 1 /\ pending[1] = Key_ctrl("g")
        THEN Complete(Act("ToggleFileBrowser"))
        ELSE IF /\ n = 1
                /\ "CONTROL" \in pending[1].modifiers
                /\ ControlCommand(pending[1].code) # None
        THEN Complete(ControlCommand(pending[1].code).value)
        ELSE match_leader(pending, mode)

\* Option::unwrap_or
unwrap_or(opt, default) == IF opt = None THEN default ELSE opt.value

\* check_timeout dropping the stale keys but keeping the stale count
check_timeout_keeps_count(self, elapsed) ==
    IF elapsed > Timeout
    THEN [self EXCEPT !.pending = <<>>]
    ELSE self

\* check_timeout: elapsed is last_key_time.elapsed(), in milliseconds
check_timeout(self, elapsed) ==
    IF elapsed > Timeout
    THEN [self EXCEPT !.pending = <<>>, !.count = None]
    ELSE self

\* IsCountDigit taking a '0' as a count digit whether or not a count is set
IsCountDigit_zero_included(self, key) ==
    /\ IsChar(key.code)
    /\ key.code \in AsciiDigits
    /\ key.modifiers = NONE

\* whether process_key takes the key as a digit of the count
IsCountDigit(self, key) ==
    /\ IsChar(key.code)
    /\ key.code \in AsciiDigits
    /\ key.modifiers = NONE
    /\ (key.code # "0" \/ self.count # None)

\* resolve reporting every completed command with the count 1
resolve_with_count_one(self, matched) ==
    CASE matched.kind = "Complete" ->
             [state |-> [self EXCEPT !.pending = <<>>, !.count = None],
              result |-> Action(matched.action, 1)]
      [] matched.kind = "Prefix" ->
             [state |-> self, result |-> Pending]
      [] matched.kind = "NoMatch" ->
             [state |-> [self EXCEPT !.pending = <<>>, !.count = None],
              result |-> Unhandled]

\* resolve keeping the count when nothing matched
resolve_keeps_count_on_no_match(self, matched) ==
    CASE matched.kind = "Complete" ->
             [state |-> [self EXCEPT !.pending = <<>>, !.count = None],
              result |-> Action(matched.action, unwrap_or(self.count, 1))]
      [] matched.kind = "Prefix" ->
             [state |-> self, result |-> Pending]
      [] matched.kind = "NoMatch" ->
             [state |-> [self EXCEPT !.pending = <<>>],
              result |-> Unhandled]

\* what process_key does with the outcome of match_sequence on self.pending
\* when that outcome is final: Complete, Prefix, or a NoMatch not tried again
resolve(self, matched) ==
    CASE matched.kind = "Complete" ->
             [state |-> [self EXCEPT !.pending = <<>>, !.count = None],
              result |-> Action(matched.action, unwrap_or(self.count, 1))]
      [] matched.kind = "Prefix" ->
             [state |-> self, result |-> Pending]
      [] matched.kind = "NoMatch" ->
             [state |-> [self EXCEPT !.pending = <<>>, !.count = None],
              result |-> Unhandled]

\* KeySequenceState::process_key without the second attempt on the key alone
\* after a longer chord failed
process_key_no_retry(self0, key, mode, elapsed) ==
    LET self == check_timeout(self0, elapsed)
    IN  IF self.waiting_for_pane_select
        THEN IF IsChar(key.code) /\ key.code \in AsciiLowercase
             THEN [state |-> [self EXCEPT !.waiting_for_pane_select = FALSE],
                   result |-> Action(SelectPane(key.code), 1)]
             ELSE IF key.code = "Esc"
             THEN [state |-> [self EXCEPT !.waiting_for_pane_select = FALSE,
                                          !.count = None],
                   result |-> Cancelled]
             ELSE [state |-> self, result |-> Pending]
        ELSE IF IsCountDigit(self, key)
        THEN [state |-> [self EXCEPT
                           !.count = Some(unwrap_or(@, 0) * 10 + to_digit(key.code))],
              result |-> Pending]
        ELSE LET pushed == [self EXCEPT !.pending = Append(@, key)]
             IN  resolve(pushed, match_sequence(pushed.pending, mode))

\* KeySequenceState::process_key; elapsed is the time since the call before
process_key(self0, key, mode, elapsed) ==
    LET self == check_timeout(self0, elapsed)
    IN  IF self.waiting_for_pane_select
        THEN IF IsChar(key.code) /\ key.code \in AsciiLowercase
             THEN [state |-> [self EXCEPT !.waiting_for_pane_select = FALSE],
                   result |-> Action(SelectPane(key.code), 1)]
             ELSE IF key.code = "Esc"
             THEN [state |-> [self EXCEPT !.waiting_for_pane_select = FALSE,
                                          !.count = None],
                   result |-> Cancelled]
             ELSE [state |-> self, result |-> Pending]
        ELSE IF IsCountDigit(self, key)
        THEN [state |-> [self EXCEPT
                           !.count = Some(unwrap_or(@, 0) * 10 + to_digit(key.code))],
              result |-> Pending]
        ELSE LET pushed == [self EXCEPT !.pending = Append(@, key)]
                 matched == match_sequence(pushed.pending, mode)
                 alone == [self EXCEPT !.pending = <<key>>]
             IN  IF matched.kind = "NoMatch" /\ Len(pushed.pending) > 1
                 THEN resolve(alone, match_sequence(alone.pending, mode))
                 ELSE resolve(pushed, matched)

----------------------------------------------------------------------------
(* Workspace: the ordered tabs and the active tab (spec 3 and 4.2; the     *)
(* tabbed Workspace is not among the sources, its callers are)             *)

\* a Workspace starts with one tab, which is active
Workspace_new ==
    [tabs |-> <<Tab_new>>, active_tab |-> 0, command_buffer |-> <<>>,
     message |-> None, error |-> None, pending_keys |-> "",
     selecting_pane |-> FALSE, pending_finder |-> None, running |-> TRUE]

\* the tab the Workspace delegates to: tabs[active_tab], indexed from 0
active(self) == self.tabs[self.active_tab + 1]

\* Vec::remove(index), index from 0
RemoveAt(seq, index) ==
    [i \in 1..(Len(seq) - 1) |-> IF i <= index THEN seq[i] ELSE seq[i + 1]]

\* new_tab: push a tab and focus it
Workspace_new_tab(self) ==
    [self EXCEPT !.tabs = Append(@, Tab_new), !.active_tab = Len(self.tabs)]

\* next_tab: one to the right with wrap-around, a no-op with a single tab
Workspace_next_tab(self) ==
    IF Len(self.tabs) > 1
    THEN [self EXCEPT !.active_tab = (@ + 1) % Len(self.tabs)]
    ELSE self

\* prev_tab stopping at the first tab instead of wrapping
prev_tab_without_wrap(self) ==
    IF Len(self.tabs) > 1
    THEN [self EXCEPT !.active_tab = IF @ = 0 THEN 0 ELSE @ - 1]
    ELSE self

\* prev_tab: one to the left with wrap-around, a no-op with a single tab
Workspace_prev_tab(self) ==
    IF Len(self.tabs) > 1
    THEN [self EXCEPT !.active_tab = IF @ = 0 THEN Len(self.tabs) - 1 ELSE @ - 1]
    ELSE self

\* close_tab removing the current tab without clamping active_tab
close_tab_without_clamp(self) ==
    IF Len(self.tabs) <= 1
    THEN [workspace |-> self, ret |-> FALSE]
    ELSE [workspace |-> [self EXCEPT !.tabs = RemoveAt(@, self.active_tab)],
          ret |-> TRUE]

\* close_tab: refuse on the last tab; remove the current tab and clamp
\* active_tab into range
Workspace_close_tab(self) ==
    IF Len(self.tabs) <= 1
    THEN [workspace |-> self, ret |-> FALSE]
    ELSE LET tabs == RemoveAt(self.tabs, self.active_tab)
         IN  [workspace |->
                  [self EXCEPT !.tabs = tabs,
                               !.active_tab = IF @ >= Len(tabs) THEN Len(tabs) - 1 ELSE @],
              ret |-> TRUE]

\* split_vertical, delegated to the active tab
Workspace_split_vertical(self) ==
    [self EXCEPT !.tabs[self.active_tab + 1] = Tab_split_vertical(@)]

----------------------------------------------------------------------------
(* Spec: one Tab driven through its operations *)

\* the labels tried: u8 codes from 'a', every label in use and one that is not
Labels == 97..(97 + Cardinality(DOMAIN tab.panes))

\* whether the tab may still allocate a pane id within the model's bound
CanAllocate == tab.next_pane_id < MaxPaneId

\* what every Tab operation records about itself
Record(name, r) ==
    /\ op' = name
    /\ ret' = r
    /\ UNCHANGED <<layout, args, key_seq, workspace, input_state>>

Init ==
    /\ tab = Tab_new
    /\ layout = Layout_new(0)
    /\ op = "new"
    /\ args = NoArgs
    /\ ret = NoRet
    /\ key_seq = KeySequenceState_new
    /\ workspace = Workspace_new
    /\ input_state = InputState_new

split_vertical ==
    /\ CanAllocate
    /\ tab' = Tab_split_vertical(tab)
    /\ Record("split_vertical", NoRet)

split_horizontal ==
    /\ CanAllocate
    /\ tab' = Tab_split_horizontal(tab)
    /\ Record("split_horizontal", NoRet)

focus_next ==
    /\ tab' = Tab_focus_next(tab)
    /\ Record("focus_next", NoRet)

focus_pane_by_label ==
    \E label \in Labels :
        /\ tab' = Tab_focus_pane_by_label(tab, label).tab
        /\ Record("focus_pane_by_label", Tab_focus_pane_by_label(tab, label).ret)

\* the files no pane of the tab shows yet: a file is opened from the browser
\* once, in one pane
Unopened ==
    {path \in Paths :
        \A id \in DOMAIN tab.panes : tab.panes[id].buffer.filepath # Some(path)}

open_file_in_pane ==
    \E path \in Unopened, label \in Labels :
        /\ tab' = Tab_open_file_in_pane(tab, path, label).tab
        /\ Record("open_file_in_pane", Tab_open_file_in_pane(tab, path, label).ret)

close_focused_pane ==
    /\ tab' = Tab_close_focused_pane(tab).tab
    /\ Record("close_focused_pane", Tab_close_focused_pane(tab).ret)

toggle_file_browser ==
    /\ tab.file_browser_pane_id = None => CanAllocate
    /\ tab' = Tab_toggle_file_browser(tab)
    /\ Record("toggle_file_browser", NoRet)

focus_file_browser ==
    /\ tab.file_browser_pane_id = None => CanAllocate
    /\ tab' = Tab_focus_file_browser(tab)
    /\ Record("focus_file_browser", NoRet)

Next ==
    \/ split_vertical
    \/ split_horizontal
    \/ focus_next
    \/ focus_pane_by_label
    \/ open_file_in_pane
    \/ close_focused_pane
    \/ toggle_file_browser
    \/ focus_file_browser

Spec == Init /\ [][Next]_vars

----------------------------------------------------------------------------
(* SpecLayout: one Layout driven through its operations *)

LayoutIds == 0..MaxLeaves
Directions == {"Horizontal", "Vertical"}

\* the ids on the leaves of a layout
Leaves(l) == {pane_ids(l)[i] : i \in 1..Len(pane_ids(l))}

\* what every Layout operation records about itself
LayoutRecord(name, a, r) ==
    /\ op' = name
    /\ args' = a
    /\ ret' = r
    /\ UNCHANGED <<tab, key_seq, workspace, input_state>>

InitLayout ==
    /\ tab = Tab_new
    /\ layout \in {Layout_new(id) : id \in LayoutIds}
    /\ op = "new"
    /\ args = NoArgs
    /\ ret = NoRet
    /\ key_seq = KeySequenceState_new
    /\ workspace = Workspace_new
    /\ input_state = InputState_new

\* callers hand split_pane a new id; the target may or may not be in the tree
do_split_pane ==
    /\ Len(pane_ids(layout)) < MaxLeaves
    /\ \E pane_id \in LayoutIds, new_pane_id \in LayoutIds \ Leaves(layout),
          direction \in Directions :
          /\ layout' = split_pane(layout, pane_id, new_pane_id, direction)
          /\ LayoutRecord("split_pane",
                          [pane_id |-> pane_id, new_pane_id |-> new_pane_id,
                           direction |-> direction],
                          NoRet)

do_add_left_pane ==
    /\ Len(pane_ids(layout)) < MaxLeaves
    /\ \E new_pane_id \in LayoutIds \ Leaves(layout), ratio \in Ratios :
          /\ layout' = add_left_pane(layout, new_pane_id, ratio)
          /\ LayoutRecord("add_left_pane",
                          [new_pane_id |-> new_pane_id, ratio |-> ratio], NoRet)

do_remove_pane ==
    \E pane_id \in LayoutIds :
        /\ layout' = Layout_remove_pane(layout, pane_id).layout
        /\ LayoutRecord("remove_pane", [pane_id |-> pane_id],
                        Layout_remove_pane(layout, pane_id).ret)

NextLayout ==
    \/ do_split_pane
    \/ do_add_left_pane
    \/ do_remove_pane

SpecLayout == InitLayout /\ [][NextLayout]_vars

----------------------------------------------------------------------------
(* Properties of a Layout (checked under SpecLayout) *)

\* the screen areas tried: every size up to MaxSide away from the origin,
\* and the largest one at the origin
Areas ==
    {Rect_new(1, 2, w, h) : w \in 0..MaxSide, h \in 0..MaxSide}
        \cup {Rect_new(0, 0, MaxSide, MaxSide)}

Inside(r, area) ==
    /\ area.x <= r.x /\ r.x + r.width <= area.x + area.width
    /\ area.y <= r.y /\ r.y + r.height <= area.y + area.height

\* two rects share a cell
Overlap(r1, r2) ==
    /\ r1.width > 0 /\ r1.height > 0 /\ r2.width > 0 /\ r2.height > 0
    /\ r1.x < r2.x + r2.width /\ r2.x < r1.x + r1.width
    /\ r1.y < r2.y + r2.height /\ r2.y < r1.y + r1.height

RECURSIVE SumAreas(_)
SumAreas(rects) ==
    IF rects = <<>> THEN 0
    ELSE Head(rects).rect.width * Head(rects).rect.height + SumAreas(Tail(rects))

Tiles(rects, area) ==
    /\ \A i \in 1..Len(rects) : Inside(rects[i].rect, area)
    /\ \A i, j \in 1..Len(rects) : i < j => ~Overlap(rects[i].rect, rects[j].rect)
    /\ SumAreas(rects) = area.width * area.height

\* the directions and the ratios of the splits of a tree
RECURSIVE SplitsOf(_)
SplitsOf(node) ==
    IF node.kind = "Pane" THEN {}
    ELSE {<<node.direction, node.ratio>>}
             \cup SplitsOf(node.first) \cup SplitsOf(node.second)

\* a tree with one leaf id replaced by another
RECURSIVE Renamed(_, _, _)
Renamed(node, from, to) ==
    IF node.kind = "Pane"
    THEN IF node.id = from THEN Pane(to) ELSE node
    ELSE Split(node.direction, node.ratio,
               Renamed(node.first, from, to), Renamed(node.second, from, to))

\* C3: after any sequence of split_pane, add_left_pane and remove_pane from a
\* single-pane layout, the rects of calculate_rects(area) exactly tile area:
\* each lies inside area, no two overlap, and their areas sum to area's area
C3_RectsTileArea ==
    \A area \in Areas : Tiles(Layout_calculate_rects(layout, area), area)

\* C3 case: three panes split both ways, the uneven ratio among them, after
\* a split or a removal
C3_Witness ==
    /\ op \in {"split_pane", "remove_pane"}
    /\ Len(pane_ids(layout)) >= 3
    /\ \E r \in Ratios : <<"Vertical", Ratio_0_2>> \in SplitsOf(layout.root)
                         /\ <<"Horizontal", r>> \in SplitsOf(layout.root)

\* a split_pane call that found its target
SplitFoundTarget == op' = "split_pane" /\ args'.pane_id \in Leaves(layout)

\* C7 as stated: split_pane(target, new_id, direction) followed by remove_pane
\* of target or of new_id gives back the tree before the split
C7_SplitThenRemoveEitherRestores ==
    [][SplitFoundTarget =>
        /\ Layout_remove_pane(layout', args'.new_pane_id) = [layout |-> layout, ret |-> TRUE]
        /\ Layout_remove_pane(layout', args'.pane_id) = [layout |-> layout, ret |-> TRUE]
      ]_vars

\* C7 amended: removing new_id gives back the tree before the split; removing
\* target gives that tree with new_id on the leaf where target was
C7_SplitThenRemoveRestoresShape ==
    [][SplitFoundTarget =>
        /\ Layout_remove_pane(layout', args'.new_pane_id) = [layout |-> layout, ret |-> TRUE]
        /\ Layout_remove_pane(layout', args'.pane_id)
             = [layout |-> [root |-> Renamed(layout.root, args'.pane_id, args'.new_pane_id)],
                ret |-> TRUE]
      ]_vars

\* C7 case: a leaf below an uneven split was split
C7_Witness ==
    /\ op = "split_pane"
    /\ Len(pane_ids(layout)) >= 3
    /\ args.pane_id \in Leaves(layout) /\ args.new_pane_id \in Leaves(layout)
    /\ \E d \in Directions : <<d, Ratio_0_2>> \in SplitsOf(layout.root)

----------------------------------------------------------------------------
(* Properties of a Tab (checked under Spec) *)

\* no id sits on two leaves
NoDuplicates(seq) == \A i, j \in 1..Len(seq) : i # j => seq[i] # seq[j]

\* C1: after any sequence of Tab operations from a new Tab, focused_pane_id
\* is a key of the pane map, so focused_pane() finds its pane
C1_FocusedPaneExists == tab.focused_pane_id \in DOMAIN tab.panes

\* C2: layout.pane_ids() is duplicate-free and its ids are exactly the keys
\* of the pane map
C2_LayoutMatchesPanes ==
    /\ NoDuplicates(pane_ids(tab.layout))
    /\ Leaves(tab.layout) = DOMAIN tab.panes

\* C4: a Tab is never left with zero panes
C4_AtLeastOnePane == Cardinality(DOMAIN tab.panes) >= 1

\* the pane map of a tab, as a set of keys
Keys(t) == DOMAIN t.panes

\* C5 as stated: close_focused_pane on a Tab with exactly one pane returns
\* false and leaves the pane map, the layout, focused_pane_id and
\* file_browser_pane_id unchanged
C5_CloseOfOnlyPaneRefused ==
    [][(op' = "close_focused_pane" /\ Cardinality(Keys(tab)) = 1) =>
        /\ ret' = FALSE
        /\ tab'.panes = tab.panes
        /\ tab'.layout = tab.layout
        /\ tab'.focused_pane_id = tab.focused_pane_id
        /\ tab'.file_browser_pane_id = tab.file_browser_pane_id
      ]_vars

\* the elements of a sequence other than v, in their order
Without(seq, v) == LET Keep(x) == x # v IN SelectSeq(seq, Keep)

\* C6 as stated: close_focused_pane on a Tab with two or more panes returns
\* true, removes exactly the focused pane from the pane map and the layout,
\* and leaves focus on the pane that followed it in pane_ids() order
\* (wrapping), which still exists
C6_CloseRemovesFocusedPane ==
    [][(op' = "close_focused_pane" /\ Cardinality(Keys(tab)) >= 2) =>
        LET closed == tab.focused_pane_id
            ids == pane_ids(tab.layout)
            pos == Position(ids, closed)
        IN  /\ ret' = TRUE
            /\ closed \in Keys(tab)
            /\ tab'.panes = [id \in Keys(tab) \ {closed} |-> tab.panes[id]]
            /\ pos # 0
            /\ pane_ids(tab'.layout) = Without(ids, closed)
            /\ tab'.focused_pane_id = ids[(pos % Len(ids)) + 1]
            /\ tab'.focused_pane_id \in Keys(tab')
      ]_vars

\* the id a split gives its new pane
NewId(t) == t.next_pane_id

\* C8: split_vertical and split_horizontal add exactly one new Editor pane;
\* focus stays on the original pane, every pane that existed keeps its state,
\* and file_browser_pane_id is unchanged
C8_SplitChangesNothingElse ==
    [][op' \in {"split_vertical", "split_horizontal"} =>
        /\ NewId(tab) \notin Keys(tab)
        /\ Keys(tab') = Keys(tab) \cup {NewId(tab)}
        /\ tab'.panes[NewId(tab)].kind = "Editor"
        /\ \A id \in Keys(tab) : tab'.panes[id] = tab.panes[id]
        /\ tab'.focused_pane_id = tab.focused_pane_id
        /\ tab'.file_browser_pane_id = tab.file_browser_pane_id
      ]_vars

\* C8 case: a split made while the file browser is open and another pane
\* shows a file
C8_Witness ==
    /\ op = "split_vertical"
    /\ tab.file_browser_pane_id # None
    /\ tab.focused_pane_id \in Keys(tab)
    /\ \E id \in Keys(tab) : tab.panes[id].buffer.filepath # None
    /\ Cardinality(Keys(tab)) >= 3

\* the focused id after k calls of focus_next
RECURSIVE FocusAfter(_, _)
FocusAfter(t, k) ==
    IF k = 0 THEN t.focused_pane_id
    ELSE FocusAfter(Tab_focus_next(t), k - 1)

\* C9 as stated: focus_next moves focus to the id after the focused one in
\* pane_ids() order, wrapping; with n panes, n calls in a row visit every pane
\* once and bring focus back to where it started
C9_FocusNextCycles ==
    [][op' = "focus_next" =>
        LET ids == pane_ids(tab.layout)
            pos == Position(ids, tab.focused_pane_id)
            n == Cardinality(Keys(tab))
        IN  /\ pos # 0
            /\ tab'.focused_pane_id = ids[(pos % Len(ids)) + 1]
            /\ {FocusAfter(tab, k) : k \in 1..n} = Keys(tab)
            /\ FocusAfter(tab, n) = tab.focused_pane_id
      ]_vars

\* the leaves of the layout that are Editor panes of the pane map
EditorLeaves(t) ==
    {id \in Leaves(t.layout) : id \in Keys(t) /\ t.panes[id].kind = "Editor"}

\* the labelled list holds exactly the Editor panes of the layout, in
\* pane_ids() order, and its i-th entry carries the i-th letter from 'a'
LabelsInOrder(t) ==
    LET labeled == get_editor_panes_with_labels(t)
        ids == pane_ids(t.layout)
    IN  /\ {labeled[i].id : i \in 1..Len(labeled)} = EditorLeaves(t)
        /\ Len(labeled) = Cardinality(EditorLeaves(t))
        /\ \A i, j \in 1..Len(labeled) :
               i < j => Position(ids, labeled[i].id) < Position(ids, labeled[j].id)
        /\ \A i \in 1..Len(labeled) : labeled[i].label = 96 + i

\* every label handed out is one of the letters 'a'..'z'
LabelsAreLetters(t) ==
    \A i \in 1..Len(get_editor_panes_with_labels(t)) :
        get_editor_panes_with_labels(t)[i].label \in 97..122

LabelsOf(t) ==
    [i \in 1..Len(get_editor_panes_with_labels(t)) |->
        get_editor_panes_with_labels(t)[i].label]

\* C10 as stated: get_editor_panes_with_labels returns the Editor panes of
\* the layout in pane_ids() order, labelled 'a', 'b', ...; after one
\* split_vertical from a single pane (the tab then holds two, the new id
\* being fresh) it returns two entries, 'a' and 'b'
C10_LabelsAfterSplitOfSinglePane ==
    /\ LabelsInOrder(tab) /\ LabelsAreLetters(tab)
    /\ (op = "split_vertical" /\ Cardinality(Keys(tab)) = 2) =>
           LabelsOf(tab) = <<97, 98>>

\* split_vertical has split a single Editor pane, the only leaf of the layout
\* and focused: the root is now the split of that pane and the pane with the
\* id handed out last, an id no earlier layout holds
SplitOfSingleEditor(t) ==
    /\ t.layout.root = Split("Vertical", Ratio_0_5, Pane(t.focused_pane_id),
                             Pane(t.next_pane_id - 1))
    /\ t.focused_pane_id \in Keys(t)
    /\ t.panes[t.focused_pane_id].kind = "Editor"

\* C10 amended: get_editor_panes_with_labels returns the Editor panes of the
\* layout in pane_ids() order, the i-th labelled with the character 'a' + i - 1;
\* after one split_vertical from a single Editor pane (the only leaf of the
\* layout, focused) it returns that pane as 'a' and the new pane as 'b'
C10_LabelsAfterSplitOfSingleEditor ==
    /\ LabelsInOrder(tab)
    /\ (op = "split_vertical" /\ SplitOfSingleEditor(tab)) =>
           get_editor_panes_with_labels(tab)
               = <<[label |-> 97, id |-> tab.focused_pane_id],
                   [label |-> 98, id |-> tab.next_pane_id - 1]>>

\* C10 case: a single Editor pane that is not the tab's first pane has been
\* split and labelled, after the file browser was opened and closed
C10_Witness ==
    /\ op = "split_vertical"
    /\ Len(pane_ids(tab.layout)) = 2
    /\ tab.file_browser_pane_id = None
    /\ tab.next_pane_id >= 4
    /\ 0 \notin Keys(tab)
    /\ SplitOfSingleEditor(tab)
    /\ LabelsOf(tab) = <<97, 98>>

----------------------------------------------------------------------------
(* Tab: the file browser reference and the pane ids *)

\* C11: whenever file_browser_pane_id is Some(id), id is a key of the pane
\* map and a leaf of the layout, after any sequence of Tab operations
C11_FileBrowserPaneExists ==
    tab.file_browser_pane_id # None =>
        /\ tab.file_browser_pane_id.value \in Keys(tab)
        /\ tab.file_browser_pane_id.value \in Leaves(tab.layout)

\* C11 case: the file browser is open and close_focused_pane has just closed
\* a pane beside it
C11_Witness ==
    /\ op = "close_focused_pane" /\ ret = TRUE
    /\ tab.file_browser_pane_id # None
    /\ tab.panes[tab.file_browser_pane_id.value].kind = "FileBrowser"

\* C12: when toggle_file_browser opens the file browser, a second
\* toggle_file_browser right after it gives back the layout tree and the
\* pane map of before the first toggle, with file_browser_pane_id None
C12_ToggleTwiceRestores ==
    [][(op' = "toggle_file_browser" /\ tab.file_browser_pane_id = None) =>
          LET closed == Tab_toggle_file_browser(tab')
          IN  /\ tab'.file_browser_pane_id # None
              /\ closed.layout = tab.layout
              /\ closed.panes = tab.panes
              /\ closed.file_browser_pane_id = None
      ]_vars

\* C12 case: toggle_file_browser has just opened the file browser to the
\* left of a layout that is itself a split
C12_Witness ==
    /\ op = "toggle_file_browser"
    /\ tab.file_browser_pane_id # None
    /\ tab.layout.root.kind = "Split"
    /\ tab.layout.root.first = Pane(tab.file_browser_pane_id.value)
    /\ tab.layout.root.second.kind = "Split"

\* every live pane carries its own key as id, below the counter, and the
\* layout names no pane twice
IdsBelowCounter(t) ==
    /\ \A id \in Keys(t) : t.panes[id].id = id /\ id < t.next_pane_id
    /\ NoDuplicates(pane_ids(t.layout))

\* C13: every pane id a Tab allocates (split, opening the file browser) is
\* the counter's value, above every id allocated before (all below the
\* counter), and the counter only grows: no closed pane's id is given to a
\* later pane and no two live panes share an id
C13_PaneIdsStrictlyIncrease ==
    /\ IdsBelowCounter(tab)
    /\ [][/\ IdsBelowCounter(tab')
          /\ tab'.next_pane_id >= tab.next_pane_id
          /\ \A id \in Keys(tab') \ Keys(tab) :
                 /\ id = tab.next_pane_id
                 /\ tab'.next_pane_id = id + 1
                 /\ \A old \in Keys(tab) : old < id
      ]_vars

\* C13 case: a pane has just been allocated after two earlier panes were
\* closed; it took a new id, not one of theirs
C13_Witness ==
    /\ op \in {"split_vertical", "split_horizontal", "toggle_file_browser",
               "focus_file_browser"}
    /\ tab.next_pane_id = 4
    /\ 3 \in Keys(tab)
    /\ Cardinality(Keys(tab)) = 2

----------------------------------------------------------------------------
(* SpecKeys: one KeySequenceState driven through process_key *)

\* the keys typed: the digits 0..3, the keys that start, continue and end the
\* chords, single commands of both modes, keys no table knows, and the
\* same with Control held where the code looks at the modifiers
InputKeys ==
    {Key_char(c) : c \in {"0", "1", "2", "3", "g", "j", "v", "w", "f", "e",
                          "t", "c", "i", " ", "x", "G"}}
    \cup {Key_new(code, NONE) : code \in {"Esc", "Left", "Enter"}}
    \cup {Key_ctrl(c) : c \in {"w", "g", "d", "f", "v", "x", "1"}}
    \cup {Key_new("w", {"CONTROL", "ALT"})}

\* the mode names the handler passes
Modes == {"normal", "insert"}

\* milliseconds between two keys: at once, at the timeout, just over it
Elapsed == {0, Timeout, Timeout + 1}

\* the count a digit key may leave stays within MaxDigits decimal digits
WithinDigits(state) ==
    state.count # None => state.count.value < 10 ^ MaxDigits

InitKeys ==
    /\ tab = Tab_new
    /\ layout = Layout_new(0)
    /\ key_seq = KeySequenceState_new
    /\ workspace = Workspace_new
    /\ input_state = InputState_new
    /\ op = "new"
    /\ args = NoArgs
    /\ ret = NoRet

do_process_key ==
    \E key \in InputKeys, mode \in Modes, elapsed \in Elapsed :
        /\ WithinDigits(process_key(key_seq, key, mode, elapsed).state)
        /\ key_seq' = process_key(key_seq, key, mode, elapsed).state
        /\ ret' = process_key(key_seq, key, mode, elapsed).result
        /\ args' = [key |-> key, mode |-> mode, elapsed |-> elapsed]
        /\ op' = "process_key"
        /\ UNCHANGED <<tab, layout, workspace, input_state>>

NextKeys == do_process_key

SpecKeys == InitKeys /\ [][NextKeys]_vars

----------------------------------------------------------------------------
(* KeySequenceState: counts and chords *)

\* the call just made was process_key with the key arriving within the
\* timeout, on a state that was not waiting for a pane label
PromptKey ==
    /\ op' = "process_key"
    /\ args'.elapsed <= Timeout
    /\ ~key_seq.waiting_for_pane_select

\* an unmodified decimal digit key
UnmodifiedDigit(key) == key.code \in AsciiDigits /\ key.modifiers = NONE

\* C14: unmodified digits d1..dn with d1 # 0 typed one after the other each
\* return Pending and leave count = 10 * count + digit, so that after d1..dn
\* the count is their decimal value N; the key that then completes a command
\* returns Action(command, N), the command being the one it completes with
\* no count typed
C14_CountPrefixIsDecimalValue ==
    [][PromptKey =>
         LET key == args'.key
             uncounted == process_key([key_seq EXCEPT !.count = None], key,
                                      args'.mode, args'.elapsed).result
         IN  /\ (UnmodifiedDigit(key) /\ (key.code # "0" \/ key_seq.count # None)) =>
                    /\ ret' = Pending
                    /\ key_seq' = [key_seq EXCEPT !.count =
                           Some(10 * unwrap_or(key_seq.count, 0) + to_digit(key.code))]
             /\ (key_seq.count # None /\ ret'.kind = "Action") =>
                    /\ uncounted.kind = "Action"
                    /\ ret' = Action(uncounted.action, key_seq.count.value)
      ]_vars

\* C14 case: 1 0 j has been typed and j returned MoveDown with the count 10
C14_Witness ==
    /\ op = "process_key"
    /\ args.key = Key_char("j")
    /\ ret = Action(Act("MoveDown"), 10)
    /\ key_seq = KeySequenceState_new

\* C15: a '0' typed while no count is accumulated (after the stale check) is
\* not taken as a count digit: the count stays unset and the result is not
\* Pending for a digit, in normal mode it is Action(MoveToLineStart, 1) with
\* the state Idle; a '0' typed while a count is accumulated multiplies the
\* count by ten and returns Pending
C15_LeadingZeroIsACommand ==
    [][(PromptKey /\ args'.key = Key_char("0")) =>
         /\ key_seq.count = None =>
                /\ key_seq'.count = None
                /\ args'.mode = "normal" =>
                       /\ ret' = Action(Act("MoveToLineStart"), 1)
                       /\ key_seq' = KeySequenceState_new
                /\ args'.mode = "insert" => ret' = Unhandled
         /\ key_seq.count # None =>
                /\ ret' = Pending
                /\ key_seq' = [key_seq EXCEPT !.count = Some(10 * key_seq.count.value)]
      ]_vars

\* C15 case: '0' was typed in normal mode with no count, and gave the command
C15_Witness ==
    /\ op = "process_key"
    /\ args.key = Key_char("0")
    /\ args.mode = "normal"
    /\ ret = Action(Act("MoveToLineStart"), 1)
    /\ key_seq.count = None

\* the state after a first g: g buffered, nothing else
PendingG == [KeySequenceState_new EXCEPT !.pending = <<Key_char("g")>>]

\* C16: in normal mode from Idle the first g returns Pending, which carries
\* no action, and buffers the g; the second g, typed within the timeout with
\* no digits typed, returns Action(MoveToFirstLine, 1) and leaves the state
\* Idle
C16_GThenGMovesToFirstLine ==
    [][(op' = "process_key" /\ args'.key = Key_char("g") /\ args'.mode = "normal") =>
         /\ key_seq = KeySequenceState_new =>
                ret' = Pending /\ key_seq' = PendingG
         /\ (key_seq = PendingG /\ args'.elapsed <= Timeout) =>
                /\ ret' = Action(Act("MoveToFirstLine"), 1)
                /\ key_seq' = KeySequenceState_new
      ]_vars

\* C16 case: the second g has completed the chord
C16_Witness ==
    /\ op = "process_key"
    /\ args.key = Key_char("g")
    /\ ret = Action(Act("MoveToFirstLine"), 1)
    /\ key_seq = KeySequenceState_new

\* the codes that complete a Ctrl-W chord
CtrlWCodes == {"h", "j", "k", "l", "Left", "Down", "Up", "Right", "w", "v", "s"}

\* Ctrl-W is buffered, alone, and the next key arrives within the timeout
AfterCtrlW ==
    /\ PromptKey
    /\ key_seq.pending = <<Key_ctrl("w")>>

\* C17 as stated: after Ctrl-W, v returns Action(SplitVertical, 1), and a key
\* that is not one of h/j/k/l/Left/Down/Up/Right/w/v/s makes process_key
\* report Unhandled and leaves the state Idle
C17_UnknownKeyAfterCtrlWUnhandled ==
    [][(AfterCtrlW /\ key_seq.count = None) =>
         /\ args'.key.code = "v" =>
                ret' = Action(Act("SplitVertical"), 1)
         /\ args'.key.code \notin CtrlWCodes =>
                ret' = Unhandled /\ key_seq' = KeySequenceState_new
      ]_vars

\* C17 amended: after Ctrl-W, v returns Action(SplitVertical, 1) when no
\* count was typed and the state is Idle afterwards; a count digit is
\* accumulated with Ctrl-W still buffered; any other key that is not one of
\* h/j/k/l/Left/Down/Up/Right/w/v/s gives the result and the state it gives
\* when typed on an empty buffer with the same count, which is Unhandled
\* and Idle exactly when the key alone matches nothing in the mode
C17_UnknownKeyAfterCtrlWTriedAlone ==
    [][AfterCtrlW =>
         LET key == args'.key
             alone == process_key([key_seq EXCEPT !.pending = <<>>], key,
                                  args'.mode, args'.elapsed)
         IN  /\ key.code = "v" =>
                    /\ ret' = Action(Act("SplitVertical"), unwrap_or(key_seq.count, 1))
                    /\ key_seq' = KeySequenceState_new
             /\ (key.code \notin CtrlWCodes /\ IsCountDigit(key_seq, key)) =>
                    /\ ret' = Pending
                    /\ key_seq'.pending = key_seq.pending
                    /\ key_seq'.count # None
             /\ (key.code \notin CtrlWCodes /\ ~IsCountDigit(key_seq, key)) =>
                    /\ ret' = alone.result
                    /\ key_seq' = alone.state
                    /\ ret' = Unhandled <=>
                           match_sequence(<<key>>, args'.mode) = NoMatch
                    /\ ret' = Unhandled => key_seq' = KeySequenceState_new
      ]_vars

\* C17 case: Ctrl-W and then 3 were typed; the 3 was not Unhandled, it
\* started a count and Ctrl-W is still buffered
C17_Witness ==
    /\ op = "process_key"
    /\ args.key = Key_char("3")
    /\ ret = Pending
    /\ key_seq.pending = <<Key_ctrl("w")>>
    /\ key_seq.count = Some(3)

\* C18: if keys or a count are pending and the next key arrives more than
\* the timeout after the key before, process_key returns the result and
\* ends in the state it would for that key on a fresh KeySequenceState
C18_StaleSequenceIsDropped ==
    [][(/\ op' = "process_key"
        /\ args'.elapsed > Timeout
        /\ (key_seq.pending # <<>> \/ key_seq.count # None)) =>
         LET fresh == process_key(KeySequenceState_new, args'.key, args'.mode, 0)
         IN  /\ ret' = fresh.result
             /\ key_seq' = fresh.state
      ]_vars

\* C18 case: a j arrived late, after a count or a chord had been started,
\* and moved down once
C18_Witness ==
    /\ op = "process_key"
    /\ args.elapsed > Timeout
    /\ args.key = Key_char("j")
    /\ args.mode = "normal"
    /\ ret = Action(Act("MoveDown"), 1)
    /\ key_seq = KeySequenceState_new

\* Idle: no key buffered, no count, not waiting for a pane label
Idle(state) ==
    /\ state.pending = <<>>
    /\ state.count = None
    /\ ~state.waiting_for_pane_select

\* C19: whenever process_key has returned Action, Unhandled or Cancelled the
\* state is Idle; a state with input buffered has Pending as its last result
C19_ResolutionReturnsToIdle ==
    op = "process_key" =>
        /\ ret.kind \in {"Action", "Unhandled", "Cancelled"} => Idle(key_seq)
        /\ ~Idle(key_seq) => ret = Pending

\* C19 case: a key that matches nothing arrived while a count and a chord
\* could be pending, and was reported Unhandled
C19_Witness ==
    /\ op = "process_key"
    /\ args.key = Key_char("x")
    /\ args.elapsed <= Timeout
    /\ ret = Unhandled
    /\ Idle(key_seq)

----------------------------------------------------------------------------
(* SpecTabs: the tabs of one Workspace *)

\* what every tab operation of the Workspace records about itself
TabsRecord(name, r) ==
    /\ op' = name
    /\ ret' = r
    /\ UNCHANGED <<tab, layout, args, key_seq, input_state>>

InitTabs ==
    /\ tab = Tab_new
    /\ layout = Layout_new(0)
    /\ key_seq = KeySequenceState_new
    /\ workspace = Workspace_new
    /\ input_state = InputState_new
    /\ op = "new"
    /\ args = NoArgs
    /\ ret = NoRet

new_tab ==
    /\ Len(workspace.tabs) < MaxTabs
    /\ workspace' = Workspace_new_tab(workspace)
    /\ TabsRecord("new_tab", NoRet)

next_tab ==
    /\ workspace' = Workspace_next_tab(workspace)
    /\ TabsRecord("next_tab", NoRet)

prev_tab ==
    /\ workspace' = Workspace_prev_tab(workspace)
    /\ TabsRecord("prev_tab", NoRet)

close_tab ==
    /\ workspace' = Workspace_close_tab(workspace).workspace
    /\ TabsRecord("close_tab", Workspace_close_tab(workspace).ret)

\* a split in the active tab, which tells the tabs apart
tab_split_vertical ==
    /\ active(workspace).next_pane_id < MaxTabPaneId
    /\ workspace' = Workspace_split_vertical(workspace)
    /\ TabsRecord("split_vertical", NoRet)

NextTabs ==
    \/ new_tab
    \/ next_tab
    \/ prev_tab
    \/ close_tab
    \/ tab_split_vertical

SpecTabs == InitTabs /\ [][NextTabs]_vars

\* the Workspace holds a tab and active_tab indexes one
ActiveTabInRange(w) ==
    /\ Len(w.tabs) >= 1
    /\ 0 <= w.active_tab
    /\ w.active_tab < Len(w.tabs)

\* C20: after any sequence of new_tab, next_tab, prev_tab and close_tab the
\* workspace holds at least one tab and 0 <= active_tab < tabs.len();
\* close_tab on the only tab is refused and changes nothing
C20_ActiveTabInRange ==
    /\ ActiveTabInRange(workspace)
    /\ [][/\ ActiveTabInRange(workspace')
          /\ (op' = "close_tab" /\ Len(workspace.tabs) = 1) =>
                 ret' = FALSE /\ workspace' = workspace
          /\ (op' = "close_tab" /\ Len(workspace.tabs) > 1) =>
                 ret' = TRUE /\ Len(workspace'.tabs) = Len(workspace.tabs) - 1
      ]_vars

\* C20 case: the last of three tabs was active and has been closed
C20_Witness ==
    /\ op = "close_tab" /\ ret = TRUE
    /\ Len(workspace.tabs) = 2
    /\ workspace.active_tab = 1
    /\ workspace.tabs[1].next_pane_id = 2

\* C21: next_tab and prev_tab move active_tab by one with wrap-around (with 3
\* tabs prev_tab from 0 gives 2 and next_tab from 2 gives 0), with a single
\* tab both are no-ops, and neither changes the number or order of tabs
C21_NextPrevTabWrap ==
    [][LET n == Len(workspace.tabs)
           at == workspace.active_tab
       IN  /\ op' = "next_tab" =>
                  /\ workspace'.tabs = workspace.tabs
                  /\ workspace'.active_tab = IF at = n - 1 THEN 0 ELSE at + 1
                  /\ (n = 3 /\ at = 2) => workspace'.active_tab = 0
                  /\ n = 1 => workspace' = workspace
           /\ op' = "prev_tab" =>
                  /\ workspace'.tabs = workspace.tabs
                  /\ workspace'.active_tab = IF at = 0 THEN n - 1 ELSE at - 1
                  /\ (n = 3 /\ at = 0) => workspace'.active_tab = 2
                  /\ n = 1 => workspace' = workspace
      ]_vars

\* C21 case: prev_tab has wrapped from the first of three tabs to the last,
\* the tabs being told apart by their panes
C21_Witness ==
    /\ op = "prev_tab"
    /\ Len(workspace.tabs) = 3
    /\ workspace.active_tab = 2
    /\ workspace.tabs[1].next_pane_id # workspace.tabs[3].next_pane_id

\* C23: when the key is appended to a non-empty pending buffer (it is not
\* taken as a count digit, and the buffer is not stale) and the longer chord
\* matches nothing, process_key returns the result and leaves the pending
\* buffer and the count it leaves for that key on an empty buffer with the
\* same count
C23_FailedChordRetriesLastKey ==
    [][(/\ op' = "process_key"
        /\ ~key_seq.waiting_for_pane_select
        /\ ~IsCountDigit(check_timeout(key_seq, args'.elapsed), args'.key)
        /\ check_timeout(key_seq, args'.elapsed).pending # <<>>
        /\ match_sequence(Append(key_seq.pending, args'.key), args'.mode) = NoMatch) =>
         LET alone == process_key([key_seq EXCEPT !.pending = <<>>], args'.key,
                                  args'.mode, args'.elapsed)
         IN  /\ ret' = alone.result
             /\ key_seq'.pending = alone.state.pending
             /\ key_seq'.count = alone.state.count
      ]_vars

\* C23 case: g arrived within the timeout and is buffered as the start of a
\* chord with a count of 2 typed before, as it is after 2 t g, where t g
\* matches nothing
C23_Witness ==
    /\ op = "process_key"
    /\ args.key = Key_char("g")
    /\ args.mode = "normal"
    /\ args.elapsed <= Timeout
    /\ ret = Pending
    /\ key_seq.pending = <<Key_char("g")>>
    /\ key_seq.count = Some(2)

\* the window command each key after Ctrl-W stands for
WindowCommands ==
    {<<"h", "FocusLeft">>, <<"Left", "FocusLeft">>,
     <<"j", "FocusDown">>, <<"Down", "FocusDown">>,
     <<"k", "FocusUp">>, <<"Up", "FocusUp">>,
     <<"l", "FocusRight">>, <<"Right", "FocusRight">>,
     <<"w", "FocusNext">>, <<"v", "SplitVertical">>,
     <<"s", "SplitHorizontal">>}

\* C29: with either mode name, Ctrl-W typed on an Idle state returns Pending,
\* and each of h/Left, j/Down, k/Up, l/Right, w, v, s typed next within the
\* timeout, with either mode name, returns its window command with count 1
\* and leaves the state Idle
C29_CtrlWChords ==
    [][(/\ op' = "process_key"
        /\ args'.key = Key_ctrl("w")
        /\ key_seq = KeySequenceState_new) =>
         /\ ret' = Pending
         /\ key_seq'.pending = <<Key_ctrl("w")>>
         /\ \A cmd \in WindowCommands, mode \in Modes, elapsed \in {0, Timeout} :
                LET next == process_key(key_seq', Key_char(cmd[1]), mode, elapsed)
                IN  /\ next.result = Action(Act(cmd[2]), 1)
                    /\ next.state = KeySequenceState_new
      ]_vars

\* C29 case: Ctrl-W and then w were typed with the mode name insert, and w
\* came back as FocusNext
C29_Witness ==
    /\ op = "process_key"
    /\ args.key = Key_char("w")
    /\ args.mode = "insert"
    /\ ret = Action(Act("FocusNext"), 1)

\* the actions reached through the leader key
LeaderActions == {Act("FindFile"), Act("Grep"), Act("FocusFileBrowser"), Act("LeaderKey")}

\* the key typed next, in normal mode and at once
TypedNext(state, c) == process_key(state, Key_char(c), "normal", 0)

\* C30: in normal mode space typed on an Idle state returns Pending, space f
\* returns Pending, space f f gives FindFile, space f g and space g give
\* Grep, space e gives FocusFileBrowser, each with count 1; with the mode
\* name insert, space never returns Pending and leaves nothing buffered, and
\* no key gives FindFile, Grep or FocusFileBrowser
C30_LeaderOnlyInNormalMode ==
    [][op' = "process_key" =>
         /\ (/\ args'.key = Key_char(" ")
             /\ args'.mode = "normal"
             /\ key_seq = KeySequenceState_new) =>
                /\ ret' = Pending
                /\ TypedNext(key_seq', "f").result = Pending
                /\ TypedNext(TypedNext(key_seq', "f").state, "f").result
                       = Action(Act("FindFile"), 1)
                /\ TypedNext(TypedNext(key_seq', "f").state, "g").result
                       = Action(Act("Grep"), 1)
                /\ TypedNext(key_seq', "g").result = Action(Act("Grep"), 1)
                /\ TypedNext(key_seq', "e").result = Action(Act("FocusFileBrowser"), 1)
         /\ (args'.key = Key_char(" ") /\ args'.mode = "insert") =>
                /\ ret' # Pending
                /\ key_seq'.pending = <<>>
         /\ (args'.mode = "insert" /\ ret'.kind = "Action") =>
                ret'.action \notin LeaderActions
      ]_vars

\* C30 case: space f f has been typed in normal mode and gave FindFile
C30_Witness ==
    /\ op = "process_key"
    /\ args.key = Key_char("f")
    /\ args.mode = "normal"
    /\ ret = Action(Act("FindFile"), 1)

----------------------------------------------------------------------------
(* input/keymap.rs: pending_display                                        *)

key_to_string(key) ==
    (IF "CONTROL" \in key.modifiers THEN "C-" ELSE "")
        \o (IF "ALT" \in key.modifiers THEN "A-" ELSE "")
        \o (CASE IsChar(key.code) -> key.code
              [] key.code = "Esc" -> "Esc"
              [] key.code = "Enter" -> "Enter"
              [] key.code = "Left" -> "←"
              [] key.code = "Right" -> "→"
              [] key.code = "Up" -> "↑"
              [] key.code = "Down" -> "↓"
              [] OTHER -> "?")

RECURSIVE keys_to_string(_)
keys_to_string(keys) ==
    IF keys = <<>> THEN "" ELSE key_to_string(Head(keys)) \o keys_to_string(Tail(keys))

\* the count in decimal, then the buffered keys
pending_display(self) ==
    (IF self.count # None THEN ToString(self.count.value) ELSE "")
        \o keys_to_string(self.pending)

----------------------------------------------------------------------------
(* Workspace: the transient state and the delegation to the active tab     *)
(* (spec 3 and 4.2; editor/workspace.rs keeps the bodies that did not      *)
(* change when tabs were added)                                            *)

\* the area the terminal gives the panes
TerminalArea == Rect_new(0, 0, MaxSide, MaxSide)

\* the value a write through the delegation leaves in the active tab
delegate(self, t) == [self EXCEPT !.tabs[self.active_tab + 1] = t]

focused_pane(self) == active(self).panes[active(self).focused_pane_id]

\* an assignment through focused_pane_mut
focused_pane_mut(self, pane) ==
    delegate(self, [active(self) EXCEPT !.panes[active(self).focused_pane_id] = pane])

\* Command while a command line is being typed, else the focused pane's mode
Workspace_mode(self) ==
    IF self.command_buffer # <<>> \/ focused_pane(self).mode = "Command"
    THEN "Command"
    ELSE focused_pane(self).mode

set_message(self, msg) == [self EXCEPT !.message = Some(msg)]
clear_message(self) == [self EXCEPT !.message = None]
set_error(self, msg) == [self EXCEPT !.error = Some(msg)]
clear_error(self) == [self EXCEPT !.error = None]
quit(self) == [self EXCEPT !.running = FALSE]

\* the u8 code of a lowercase letter
Letters ==
    <<"a", "b", "c", "d", "e", "f", "g", "h", "i", "j", "k", "l", "m",
      "n", "o", "p", "q", "r", "s", "t", "u", "v", "w", "x", "y", "z">>
char_code(c) == 96 + Position(Letters, c)

\* Tab::with_file and Workspace::open_file_in_new_tab
Tab_with_file(path) ==
    [Tab_new EXCEPT !.panes[0].buffer = Buffer_from_file(path)]
open_file_in_new_tab(self, path) ==
    [self EXCEPT !.tabs = Append(@, Tab_with_file(path)),
                 !.active_tab = Len(self.tabs)]

----------------------------------------------------------------------------
(* input/handler.rs: handle_event, handle_key and what they call.  The     *)
(* dispatcher works on st = [workspace, input_state]; env holds what the   *)
(* outside decides during one key event: the time since the last key       *)
(* (elapsed), what FileBrowser::select returns (selected) and whether a    *)
(* file can be written (save_ok)                                           *)

PageLines == 20

\* the column pulled back onto the line after a vertical move
clamp_col(pane) ==
    LET len == line_len(pane.buffer, pane.cursor.line)
    IN  IF pane.cursor.col > len THEN [pane EXCEPT !.cursor.col = len] ELSE pane

\* the column put on the last character when Normal mode is entered
normal_mode_col(pane) ==
    LET len == line_len(pane.buffer, pane.cursor.line)
    IN  IF pane.cursor.col > 0 /\ pane.cursor.col >= len
        THEN [pane EXCEPT !.cursor.col = saturating_sub(len, 1)]
        ELSE pane

RECURSIVE move_down_times(_, _, _)
move_down_times(cursor, count, n) ==
    IF n = 0 THEN cursor ELSE move_down_times(move_down(cursor, count), count, n - 1)

RECURSIVE move_up_times(_, _)
move_up_times(cursor, n) ==
    IF n = 0 THEN cursor ELSE move_up_times(move_up(cursor), n - 1)

\* one pass of the loop of execute_action: the arm of the action (the word
\* motions, which read the text of the buffer, are not modelled)
execute_action_once(ws, action) ==
    LET pane == focused_pane(ws)
        len == line_len(pane.buffer, pane.cursor.line)
        tab_ == active(ws)
    IN  CASE action.name = "MoveLeft" ->
               focused_pane_mut(ws, [pane EXCEPT !.cursor = move_left(@)])
          [] action.name = "MoveRight" ->
               focused_pane_mut(ws, [pane EXCEPT !.cursor = move_right(@, len)])
          [] action.name = "MoveUp" ->
               focused_pane_mut(ws,
                                clamp_col([pane EXCEPT !.cursor = move_up(@)]))
          [] action.name = "MoveDown" ->
               focused_pane_mut(ws,
                   clamp_col([pane EXCEPT
                                !.cursor = move_down(@, line_count(pane.buffer))]))
          [] action.name = "MoveToLineStart" ->
               focused_pane_mut(ws, [pane EXCEPT !.cursor.col = 0])
          [] action.name = "MoveToLineEnd" ->
               focused_pane_mut(ws,
                                [pane EXCEPT !.cursor.col = saturating_sub(len, 1)])
          [] action.name = "MoveToFirstLine" ->
               focused_pane_mut(ws, [pane EXCEPT !.cursor = Cursor_new])
          [] action.name = "MoveToLastLine" ->
               focused_pane_mut(ws,
                   [pane EXCEPT !.cursor.line = saturating_sub(line_count(pane.buffer), 1)])
          [] action.name = "PageDown" ->
               focused_pane_mut(ws,
                   clamp_col([pane EXCEPT
                                !.cursor = move_down_times(@, line_count(pane.buffer),
                                                           PageLines)]))
          [] action.name = "PageUp" ->
               focused_pane_mut(ws,
                   clamp_col([pane EXCEPT !.cursor = move_up_times(@, PageLines)]))
          [] action.name = "EnterInsertMode" ->
               focused_pane_mut(ws, [pane EXCEPT !.mode = "Insert"])
          [] action.name = "EnterInsertModeAppend" ->
               focused_pane_mut(ws,
                   [pane EXCEPT !.cursor.col = IF @ < len THEN @ + 1 ELSE @,
                                !.mode = "Insert"])
          [] action.name = "EnterInsertModeAppendLine" ->
               focused_pane_mut(ws,
                                [pane EXCEPT !.cursor.col = len, !.mode = "Insert"])
          [] action.name = "EnterInsertModeOpenBelow" ->
               focused_pane_mut(ws,
                   [pane EXCEPT
                      !.buffer = insert_newline(@, pane.cursor.line, len),
                      !.cursor = [line |-> pane.cursor.line + 1, col |-> 0],
                      !.mode = "Insert"])
          [] action.name = "EnterInsertModeOpenAbove" ->
               focused_pane_mut(ws,
                   [pane EXCEPT
                      !.buffer = insert_newline(@, pane.cursor.line, 0),
                      !.cursor.col = 0,
                      !.mode = "Insert"])
          [] action.name = "EnterNormalMode" ->
               focused_pane_mut(ws, normal_mode_col([pane EXCEPT !.mode = "Normal"]))
          [] action.name = "EnterCommandMode" ->
               [focused_pane_mut(ws, [pane EXCEPT !.mode = "Command"])
                   EXCEPT !.command_buffer = <<>>]
          [] action.name = "SplitVertical" ->
               delegate(ws, Tab_split_vertical(tab_))
          [] action.name = "SplitHorizontal" ->
               delegate(ws, Tab_split_horizontal(tab_))
          [] action.name = "FocusNext" ->
               delegate(ws, Tab_focus_next(tab_))
          [] action.name \in {"FocusLeft", "FocusRight", "FocusUp", "FocusDown"} ->
               delegate(ws,
                   Tab_focus_direction(tab_,
                       CASE action.name = "FocusLeft" -> "Left"
                         [] action.name = "FocusRight" -> "Right"
                         [] action.name = "FocusUp" -> "Up"
                         [] action.name = "FocusDown" -> "Down",
                       TerminalArea))
          [] action.name = "ToggleFileBrowser" ->
               delegate(ws, Tab_toggle_file_browser(tab_))
          [] action.name = "FocusFileBrowser" ->
               delegate(ws, Tab_focus_file_browser(tab_))
          [] action.name = "FindFile" ->
               [ws EXCEPT !.pending_finder = Some("FindFile")]
          [] action.name = "Grep" ->
               [ws EXCEPT !.pending_finder = Some("Grep")]
          [] action.name = "SelectPane" ->
               delegate(ws,
                        Tab_focus_pane_by_label(tab_, char_code(action.label)).tab)
          [] action.name = "NewTab" -> Workspace_new_tab(ws)
          [] action.name = "NextTab" -> Workspace_next_tab(ws)
          [] action.name = "PrevTab" -> Workspace_prev_tab(ws)
          [] action.name = "CloseTab" -> Workspace_close_tab(ws).workspace
          [] action.name = "Quit" -> quit(ws)

\* for _ in 0..count
RECURSIVE execute_action(_, _, _)
execute_action(ws, action, count) ==
    IF count = 0
    THEN ws
    ELSE execute_action(execute_action_once(ws, action), action, count - 1)

\* Workspace::open_file_in_pane with the label typed as a character
Workspace_open_file_in_pane(self, path, c) ==
    delegate(self, Tab_open_file_in_pane(active(self), path, char_code(c)).tab)

\* the pane-selection submode ended by whatever key comes
handle_pane_selection_any_key_ends(st, key) ==
    LET ws == st.workspace
        path == st.input_state.pending_file_path
    IN  IF IsChar(key.code) /\ key.code \in AsciiLowercase
        THEN [workspace |->
                  [(IF path # None
                    THEN Workspace_open_file_in_pane(ws, path.value, key.code)
                    ELSE ws) EXCEPT !.selecting_pane = FALSE],
              input_state |-> [st.input_state EXCEPT !.pending_file_path = None]]
        ELSE [workspace |-> [ws EXCEPT !.selecting_pane = FALSE],
              input_state |-> [st.input_state EXCEPT !.pending_file_path = None]]

\* the pane-selection submode with Esc leaving the submode but keeping the
\* path that waits for a pane
handle_pane_selection_esc_keeps_path(st, key) ==
    LET ws == st.workspace
        path == st.input_state.pending_file_path
    IN  IF IsChar(key.code) /\ key.code \in AsciiLowercase
        THEN [workspace |->
                  [(IF path # None
                    THEN Workspace_open_file_in_pane(ws, path.value, key.code)
                    ELSE ws) EXCEPT !.selecting_pane = FALSE],
              input_state |-> [st.input_state EXCEPT !.pending_file_path = None]]
        ELSE IF key.code = "Esc"
        THEN [workspace |-> [ws EXCEPT !.selecting_pane = FALSE],
              input_state |-> st.input_state]
        ELSE st

\* the pane-selection submode of handle_key
handle_pane_selection(st, key) ==
    LET ws == st.workspace
        path == st.input_state.pending_file_path
    IN  IF IsChar(key.code) /\ key.code \in AsciiLowercase
        THEN [workspace |->
                  [(IF path # None
                    THEN Workspace_open_file_in_pane(ws, path.value, key.code)
                    ELSE ws) EXCEPT !.selecting_pane = FALSE],
              input_state |-> [st.input_state EXCEPT !.pending_file_path = None]]
        ELSE IF key.code = "Esc"
        THEN [workspace |-> [ws EXCEPT !.selecting_pane = FALSE],
              input_state |-> [st.input_state EXCEPT !.pending_file_path = None]]
        ELSE st

\* Buffer::save: nothing to do when clean, else the file is written, which
\* needs a path and can fail
save(self, env) ==
    IF ~self.dirty THEN "Ok"
    ELSE IF self.filepath # None /\ env.save_ok THEN "Ok"
    ELSE "Err"

RECURSIVE trim_start(_)
trim_start(s) == IF s # <<>> /\ Head(s) = " " THEN trim_start(Tail(s)) ELSE s
RECURSIVE trim_end(_)
trim_end(s) ==
    IF s # <<>> /\ s[Len(s)] = " " THEN trim_end(SubSeq(s, 1, Len(s) - 1)) ELSE s
trim(s) == trim_end(trim_start(s))

\* splitn(2, ' ').first(): the command up to its first space
first_word(cmd) ==
    IF Position(cmd, " ") = 0 THEN cmd ELSE SubSeq(cmd, 1, Position(cmd, " ") - 1)

\* execute_command (the commands for themes, grammars, the log and :e
\* are not modelled: they cannot be spelled with the keys of the model)
execute_command(ws, env) ==
    LET cmd == trim(ws.command_buffer)
        command == first_word(cmd)
        closed == Tab_close_focused_pane(active(ws))
        close_or_quit == IF closed.ret THEN delegate(ws, closed.tab) ELSE quit(ws)
        saved == save(focused_pane(ws).buffer, env)
        done ==
            CASE command \in {<<"q">>, <<"q", "u", "i", "t">>} -> close_or_quit
              [] command \in {<<"q", "a">>, <<"q", "u", "i", "t", "a", "l", "l">>} ->
                   quit(ws)
              [] command \in {<<"w">>, <<"w", "r", "i", "t", "e">>} ->
                   IF saved = "Ok" THEN set_message(ws, "Written")
                   ELSE set_message(ws, "Error: ")
              [] command = <<"w", "q">> ->
                   IF saved = "Ok" THEN close_or_quit ELSE set_message(ws, "Error: ")
              [] command \in {<<"v", "s">>, <<"v", "s", "p", "l", "i", "t">>} ->
                   delegate(ws, Tab_split_vertical(active(ws)))
              [] command \in {<<"s", "p">>, <<"s", "p", "l", "i", "t">>} ->
                   delegate(ws, Tab_split_horizontal(active(ws)))
              [] command = <<"c", "l", "o", "s", "e">> -> delegate(ws, closed.tab)
              [] command = <<>> -> ws
              [] OTHER -> set_message(ws, "Unknown command: ")
        cleared == [done EXCEPT !.command_buffer = <<>>]
    IN  focused_pane_mut(cleared, [focused_pane(cleared) EXCEPT !.mode = "Normal"])

\* handle_command_mode with Backspace never leaving the command line
handle_command_mode_backspace_stays(ws, key, env) ==
    CASE key.code = "Esc" ->
           [focused_pane_mut(ws, [focused_pane(ws) EXCEPT !.mode = "Normal"])
               EXCEPT !.command_buffer = <<>>]
      [] key.code = "Enter" -> execute_command(ws, env)
      [] key.code = "Backspace" ->
           [ws EXCEPT !.command_buffer =
               IF @ = <<>> THEN <<>> ELSE SubSeq(@, 1, Len(@) - 1)]
      [] IsChar(key.code) -> [ws EXCEPT !.command_buffer = Append(@, key.code)]
      [] OTHER -> ws

handle_command_mode(ws, key, env) ==
    CASE key.code = "Esc" ->
           [focused_pane_mut(ws, [focused_pane(ws) EXCEPT !.mode = "Normal"])
               EXCEPT !.command_buffer = <<>>]
      [] key.code = "Enter" -> execute_command(ws, env)
      [] key.code = "Backspace" ->
           LET popped == IF ws.command_buffer = <<>> THEN <<>>
                         ELSE SubSeq(ws.command_buffer, 1, Len(ws.command_buffer) - 1)
               ws1 == [ws EXCEPT !.command_buffer = popped]
           IN  IF popped = <<>>
               THEN focused_pane_mut(ws1, [focused_pane(ws1) EXCEPT !.mode = "Normal"])
               ELSE ws1
      [] IsChar(key.code) -> [ws EXCEPT !.command_buffer = Append(@, key.code)]
      [] OTHER -> ws

\* the labels of the editor panes, as the prompt shows them
RECURSIVE labels_string(_)
labels_string(labeled) ==
    IF labeled = <<>> THEN ""
    ELSE Letters[Head(labeled).label - 96] \o labels_string(Tail(labeled))

handle_file_browser(st, key, env) ==
    LET ws == st.workspace
    IN  IF "CONTROL" \in key.modifiers /\ key.code = "t"
        THEN IF env.selected # None
             THEN [st EXCEPT !.workspace = open_file_in_new_tab(ws, env.selected.value)]
             ELSE st
        ELSE CASE key.code = "Esc" -> [st EXCEPT !.workspace = clear_message(ws)]
               [] key.code = ":" ->
                    [st EXCEPT !.workspace =
                        [focused_pane_mut(ws, [focused_pane(ws) EXCEPT !.mode = "Command"])
                            EXCEPT !.command_buffer = <<>>]]
               [] key.code = "Enter" ->
                    LET opened == Tab_try_open_file_from_browser(active(ws), env.selected)
                        ws1 == delegate(ws, opened.tab)
                        editor_panes == get_editor_panes_with_labels(active(ws1))
                    IN  IF opened.ret # None /\ Len(editor_panes) > 1
                        THEN [workspace |->
                                  set_message([ws1 EXCEPT !.selecting_pane = TRUE],
                                              "Select pane: " \o labels_string(editor_panes)),
                              input_state |->
                                  [st.input_state EXCEPT !.pending_file_path = opened.ret]]
                        ELSE [st EXCEPT !.workspace = ws1]
               [] OTHER -> st
                  \* j, k, Down and Up move the selection of the file listing

\* handle_insert_mode: whether the key was taken, and the workspace it leaves
handle_insert_mode(ws, key) ==
    LET pane == focused_pane(ws)
        line == pane.cursor.line
        col == pane.cursor.col
        Taken(p) == [workspace |-> focused_pane_mut(ws, p), handled |-> TRUE]
    IN  CASE key.code = "Esc" -> Taken(normal_mode_col([pane EXCEPT !.mode = "Normal"]))
          [] IsChar(key.code) ->
               Taken([pane EXCEPT !.buffer = insert_char(@, line, col),
                                  !.cursor.col = col + 1])
          [] key.code = "Backspace" ->
               IF col > 0
               THEN Taken([pane EXCEPT !.buffer = delete_char_backward(@, line, col),
                                       !.cursor.col = col - 1])
               ELSE IF line > 0
               THEN Taken([pane EXCEPT
                             !.buffer = delete_char_backward(@, line, col),
                             !.cursor = [line |-> line - 1,
                                         col |-> line_len(pane.buffer, line - 1)]])
               ELSE Taken(pane)
          [] key.code = "Enter" ->
               Taken([pane EXCEPT !.buffer = insert_newline(@, line, col),
                                  !.cursor = [line |-> line + 1, col |-> 0]])
          [] OTHER -> [workspace |-> ws, handled |-> FALSE]

\* the name of the mode the chord matcher is given
mode_str(mode) ==
    CASE mode = "Normal" -> "normal"
      [] mode = "Insert" -> "insert"
      [] OTHER -> "normal"

\* the file-browser part of handle_key
handle_key_file_browser(st, key, env) ==
    LET ws == st.workspace
        key_seq_ == st.input_state.key_seq
        r == process_key(key_seq_, key, "normal", env.elapsed)
        processed == [st.input_state EXCEPT !.key_seq = r.state]
        in_sequence == pending_display(key_seq_) # ""
    IN  IF "CONTROL" \in key.modifiers /\ key.code = "w"
        THEN [workspace |-> IF r.result = Pending
                            THEN [ws EXCEPT !.pending_keys = pending_display(r.state)]
                            ELSE ws,
              input_state |-> processed]
        ELSE IF in_sequence /\ r.result.kind = "Action"
        THEN [workspace |->
                  execute_action([ws EXCEPT !.pending_keys = ""], r.result.action, 1),
              input_state |-> processed]
        ELSE IF in_sequence /\ r.result = Pending
        THEN [workspace |-> [ws EXCEPT !.pending_keys = pending_display(r.state)],
              input_state |-> processed]
        ELSE LET st1 == IF in_sequence
                        THEN [workspace |-> [ws EXCEPT !.pending_keys = ""],
                              input_state |-> processed]
                        ELSE st
             IN  IF "CONTROL" \in key.modifiers /\ key.code = "g"
                 THEN [st1 EXCEPT !.workspace =
                          delegate(@, Tab_toggle_file_browser(active(@)))]
                 ELSE handle_file_browser(st1, key, env)

\* the chord-matcher part of handle_key
handle_key_sequence(st, key, env) ==
    LET ws == st.workspace
        r == process_key(st.input_state.key_seq, key,
                         mode_str(focused_pane(ws).mode), env.elapsed)
        processed == [st.input_state EXCEPT !.key_seq = r.state]
    IN  [workspace |->
             CASE r.result.kind = "Action" ->
                    execute_action([ws EXCEPT !.pending_keys = ""],
                                   r.result.action, r.result.count)
               [] r.result = Pending ->
                    [ws EXCEPT !.pending_keys = pending_display(r.state)]
               [] OTHER -> [ws EXCEPT !.pending_keys = ""],
         input_state |-> processed]

handle_key(st, key, env) ==
    LET ws == st.workspace
        typed == IF focused_pane(ws).mode = "Insert"
                 THEN handle_insert_mode(ws, key)
                 ELSE [workspace |-> ws, handled |-> FALSE]
    IN  IF ws.selecting_pane THEN handle_pane_selection(st, key)
        ELSE IF Workspace_mode(ws) = "Command"
        THEN [st EXCEPT !.workspace = handle_command_mode(ws, key, env)]
        ELSE IF focused_pane(ws).kind = "FileBrowser"
        THEN handle_key_file_browser(st, key, env)
        ELSE IF typed.handled
        THEN [st EXCEPT !.workspace = typed.workspace]
        ELSE handle_key_sequence(st, key, env)

\* handle_event dismissing the error and then handling the key as well
handle_event_error_then_key(st, key, env) ==
    handle_key([st EXCEPT !.workspace = clear_message(clear_error(@))], key, env)

\* handle_event treating a displayed message like an error: the key only
\* dismisses it
handle_event_message_takes_key(st, key, env) ==
    IF st.workspace.error # None
    THEN [st EXCEPT !.workspace = clear_error(@)]
    ELSE IF st.workspace.message # None
    THEN [st EXCEPT !.workspace = clear_message(@)]
    ELSE handle_key(st, key, env)

\* handle_event for a key event
handle_event(st, key, env) ==
    IF st.workspace.error # None
    THEN [st EXCEPT !.workspace = clear_error(@)]
    ELSE handle_key([st EXCEPT !.workspace = clear_message(@)], key, env)

----------------------------------------------------------------------------
(* SpecHandler: the host loop feeding key events to handle_event           *)

HandlerKeys ==
    {Key_char(c) : c \in {"a", "l", "2", "v", ":"}}
        \cup {Key_new(code, NONE) : code \in {"Esc", "Enter"}}
        \cup {Key_ctrl("w"), Key_ctrl("g")}

\* what the outside decides during a key event; only Enter asks for the
\* selection of the file listing or writes a file
Envs(key) ==
    [elapsed : {0, Timeout + 1},
     selected : IF key.code = "Enter" THEN {None} \cup {Some(p) : p \in Paths} ELSE {None},
     save_ok : IF key.code = "Enter" THEN BOOLEAN ELSE {TRUE}]

\* whether the state stays within the bounds of the model
WithinHandlerBounds(st) ==
    /\ Len(st.workspace.tabs) <= MaxTabs
    /\ st.input_state.key_seq.count # None =>
           st.input_state.key_seq.count.value < 10 ^ MaxHandlerDigits
    /\ \A i \in 1..Len(st.workspace.tabs) :
           LET t == st.workspace.tabs[i]
           IN  /\ t.next_pane_id <= MaxHandlerPaneId
               /\ \A id \in DOMAIN t.panes :
                      LET lines == t.panes[id].buffer.lines
                      IN  /\ Len(lines) <= MaxLines
                          /\ \A k \in 1..Len(lines) : lines[k] <= MaxLineLen

\* the focused pane the host loop asks for after every event
FocusedPaneExists(ws) == active(ws).focused_pane_id \in DOMAIN active(ws).panes

\* main: a configuration error, if any, is shown before the first key
InitHandler ==
    /\ tab = Tab_new
    /\ layout = Layout_new(0)
    /\ key_seq = KeySequenceState_new
    /\ workspace \in {Workspace_new, set_error(Workspace_new, "config")}
    /\ input_state = InputState_new
    /\ op = "new"
    /\ args = NoArgs
    /\ ret = NoRet

\* Tab::open_file_in_focused_pane and the Workspace method that hands it to
\* the active tab
Tab_open_file_in_focused_pane(self, path) ==
    IF self.focused_pane_id \in DOMAIN self.panes
    THEN [self EXCEPT
            !.panes[self.focused_pane_id].buffer = Buffer_from_file(path),
            !.panes[self.focused_pane_id].cursor = Cursor_new,
            !.panes[self.focused_pane_id].scroll_offset = 0]
    ELSE self

open_file_in_focused_pane(ws, path) ==
    delegate(ws, Tab_open_file_in_focused_pane(active(ws), path))

\* the loop reading the request without clearing it
peek_pending_finder(ws) == ws

\* workspace.pending_finder.take(): what is left in the workspace
take_pending_finder(ws) == [ws EXCEPT !.pending_finder = None]

\* what a turn of the finder can end with: for FindFile a chosen file, a
\* cancel or an error; for Grep also no word under the cursor (the finder
\* is then not started) and no match; a match lies inside the file
FinderOutcomes(request) ==
    {[kind |-> "Cancelled"], [kind |-> "Error"]}
        \cup {[kind |-> "Selected", path |-> p, line |-> 1, col |-> c] :
                 p \in Paths, c \in IF request = "Grep" THEN {1, 2} ELSE {1}}
        \cup (IF request = "Grep"
              THEN {[kind |-> "NoPattern"], [kind |-> "NoMatches"]}
              ELSE {})

\* the workspace after the finder turn that took the request
finder_result(taken, request, outcome) ==
    CASE outcome.kind = "Selected" /\ request = "FindFile" ->
             open_file_in_focused_pane(taken, outcome.path)
      [] outcome.kind = "Selected" /\ request = "Grep" ->
             focused_pane_mut(open_file_in_focused_pane(taken, outcome.path),
                 [focused_pane(open_file_in_focused_pane(taken, outcome.path))
                     EXCEPT !.cursor = [line |-> saturating_sub(outcome.line, 1),
                                        col |-> saturating_sub(outcome.col, 1)]])
      [] outcome.kind = "Cancelled" -> taken
      [] outcome.kind = "Error" -> set_message(taken, "finder error")
      [] outcome.kind = "NoPattern" -> set_message(taken, "No pattern to search")
      [] outcome.kind = "NoMatches" -> set_message(taken, "No matches for: ")

\* the event branch of the main loop with a key event from keys, the
\* command line kept within max_command_len characters: the event goes to
\* handle_event, then the loop takes the focused pane to adjust its scroll,
\* which panics when the focused pane does not exist
main_loop_event(keys, max_command_len) ==
    /\ workspace.running
    /\ ret # "panic"
    /\ \E key \in keys : \E env \in Envs(key) :
           LET st == handle_event([workspace |-> workspace,
                                   input_state |-> input_state], key, env)
           IN  /\ WithinHandlerBounds(st)
               /\ Len(st.workspace.command_buffer) <= max_command_len
               /\ workspace' = st.workspace
               /\ input_state' = st.input_state
               /\ op' = "handle_event"
               /\ args' = [key |-> key]
               /\ ret' = IF FocusedPaneExists(st.workspace) THEN NoRet ELSE "panic"
    /\ UNCHANGED <<tab, layout, key_seq>>

\* a turn of the main loop with one of the keys of HandlerKeys: the loop
\* waits for an event only when it found no finder request
key_event ==
    /\ workspace.pending_finder = None
    /\ main_loop_event(HandlerKeys, MaxCommandLen)

NextHandler == key_event

SpecHandler == InitHandler /\ [][NextHandler]_vars

----------------------------------------------------------------------------
(* Dispatcher properties (SpecHandler) *)

\* C24: while an error is displayed, a key event clears the error and
\* nothing else: the message, the key-sequence state, the pending file path,
\* the command buffer, the pending-key display, every pane (mode, cursor,
\* buffer), the focus and the layout are as before the key
C24_ErrorKeyOnlyClearsError ==
    [][(op' = "handle_event" /\ workspace.error # None) =>
           /\ workspace' = [workspace EXCEPT !.error = None]
           /\ input_state' = input_state
      ]_vars

\* Ctrl-G arrived while the start-up error was displayed: the error is gone
\* and the file browser has not been opened
C24_Witness ==
    /\ op = "handle_event"
    /\ args.key = Key_ctrl("g")
    /\ workspace = Workspace_new
    /\ input_state = InputState_new

\* a message is displayed and no error
MessageShown == workspace.error = None /\ workspace.message # None

\* C25 as stated: while a message is displayed (and no error), a key event
\* only dismisses the message: panes (cursor, mode), focus, layout, command
\* buffer and key-sequence state are as before the key
C25_MessageKeyOnlyDismisses ==
    [][(op' = "handle_event" /\ MessageShown) =>
           /\ workspace'.tabs = workspace.tabs
           /\ workspace'.active_tab = workspace.active_tab
           /\ workspace'.command_buffer = workspace.command_buffer
           /\ input_state'.key_seq = input_state.key_seq
      ]_vars

\* C25 amended: while a message is displayed (and no error), a key event
\* dismisses the message and is then handled exactly as it would have been
\* with no message displayed
C25_MessageKeyDismissesAndIsHandled ==
    [][(op' = "handle_event" /\ MessageShown) =>
           \E env \in Envs(args'.key) :
               LET st == handle_event([workspace |-> clear_message(workspace),
                                       input_state |-> input_state],
                                      args'.key, env)
               IN  workspace' = st.workspace /\ input_state' = st.input_state
      ]_vars

\* the key a, typed under the "Select pane" message, has opened the file in
\* the first of several editor panes and focused it
C25_Witness ==
    /\ op = "handle_event"
    /\ args.key = Key_char("a")
    /\ workspace.message = None
    /\ workspace.command_buffer = <<>>
    /\ ~workspace.selecting_pane
    /\ Len(get_editor_panes_with_labels(active(workspace))) > 1
    /\ focused_pane(workspace).kind = "Editor"
    /\ focused_pane(workspace).buffer = Buffer_from_file("a.rs")
    /\ focused_pane(workspace).cursor = Cursor_new
    /\ focused_pane(workspace).mode = "Normal"

\* the keys that end the pane-selection submode
EndsSelection(key) ==
    \/ IsChar(key.code) /\ key.code \in AsciiLowercase
    \/ key.code = "Esc"

\* C26: while selecting_pane is set every key goes to the submode and to
\* nothing else (the command buffer and the key-sequence state are never
\* touched); a lowercase letter or Esc ends the submode, any other key
\* leaves it active with panes, layout and focus unchanged
C26_SelectionConsumesEveryKey ==
    [][(op' = "handle_event" /\ workspace.selecting_pane) =>
           /\ workspace'.command_buffer = workspace.command_buffer
           /\ workspace'.pending_keys = workspace.pending_keys
           /\ input_state'.key_seq = input_state.key_seq
           /\ EndsSelection(args'.key) => ~workspace'.selecting_pane
           /\ ~EndsSelection(args'.key) =>
                  /\ workspace'.selecting_pane
                  /\ workspace'.tabs = workspace.tabs
                  /\ workspace'.active_tab = workspace.active_tab
                  /\ input_state' = input_state
      ]_vars

\* the digit 2 arrived during the submode, which is still active
C26_Witness ==
    /\ op = "handle_event"
    /\ args.key = Key_char("2")
    /\ workspace.selecting_pane
    /\ input_state.pending_file_path # None

\* the key reaches the chord matcher with the focused editor pane in Normal
\* mode and nothing buffered
NormalModeIdle ==
    /\ workspace.error = None
    /\ ~workspace.selecting_pane
    /\ workspace.command_buffer = <<>>
    /\ focused_pane(workspace).kind = "Editor"
    /\ focused_pane(workspace).mode = "Normal"
    /\ input_state.key_seq = KeySequenceState_new

\* C27: Esc in Normal mode with nothing pending changes neither the panes
\* (mode, cursor line and column, buffer) nor the focus nor the layout
C27_EscInNormalModeIsNoOp ==
    [][(op' = "handle_event" /\ args'.key = Key_new("Esc", NONE) /\ NormalModeIdle) =>
           /\ workspace'.tabs = workspace.tabs
           /\ workspace'.active_tab = workspace.active_tab
      ]_vars

\* the buffers of the panes that exist before and after the step
BuffersKept ==
    \A id \in DOMAIN active(workspace).panes \cap DOMAIN active(workspace').panes :
        active(workspace').panes[id].buffer = active(workspace).panes[id].buffer

\* C28: with no error, no pane selection and the effective mode not Command
\* (and no count buffered), Ctrl-G opens and focuses the file browser when
\* it is closed and closes it when it is open, from an editor in Normal
\* mode, from an editor in Insert mode and from the file browser; no buffer
\* is edited
C28_CtrlGTogglesFileBrowser ==
    [][(/\ op' = "handle_event"
        /\ args'.key = Key_ctrl("g")
        /\ workspace.error = None
        /\ ~workspace.selecting_pane
        /\ Workspace_mode(workspace) # "Command"
        /\ input_state.key_seq.count = None) =>
           /\ BuffersKept
           /\ active(workspace).file_browser_pane_id = None =>
                  /\ active(workspace').file_browser_pane_id # None
                  /\ active(workspace').focused_pane_id =
                         active(workspace').file_browser_pane_id.value
           /\ active(workspace).file_browser_pane_id # None =>
                  active(workspace').file_browser_pane_id = None
      ]_vars

\* the key is given to KeySequenceState::process_key: nothing dismisses or
\* takes it first
ReachesMatcher(key) ==
    /\ workspace.error = None
    /\ ~workspace.selecting_pane
    /\ Workspace_mode(workspace) # "Command"
    /\ IF focused_pane(workspace).kind = "FileBrowser"
       THEN \/ key = Key_ctrl("w")
            \/ pending_display(input_state.key_seq) # ""
       ELSE ~(/\ focused_pane(workspace).mode = "Insert"
              /\ handle_insert_mode(workspace, key).handled)

\* the single-step effect of the action applied count times, each step on
\* the state the step before left
RECURSIVE Replayed(_, _, _)
Replayed(ws, action, count) ==
    IF count = 0 THEN ws
    ELSE Replayed(execute_action_once(ws, action), action, count - 1)

\* C22: whenever the key of a key event is resolved by the KeySequenceState
\* to Action(action, count), the workspace after the event is the workspace
\* before it (message dismissed, pending display emptied) with the action
\* replayed count times, for an editor pane and for the file browser alike
C22_ActionReplayedCountTimes ==
    [][(op' = "handle_event" /\ ReachesMatcher(args'.key)) =>
           \E elapsed \in {0, Timeout + 1} :
               LET r == process_key(input_state.key_seq, args'.key,
                                    mode_str(focused_pane(workspace).mode), elapsed)
               IN  /\ input_state'.key_seq = r.state
                   /\ r.result.kind = "Action" =>
                          workspace' =
                              Replayed([clear_message(workspace) EXCEPT !.pending_keys = ""],
                                       r.result.action, r.result.count)
      ]_vars

----------------------------------------------------------------------------
(* C38: Layout::remove_pane on the last leaf *)

\* C38: Layout::remove_pane(id) called when the tree is the single leaf id
\* returns false and leaves the root as it was (still the leaf id), for
\* every id and not only for id 0
C38_RemoveLastLeafKeepsRoot ==
    [][(/\ op' = "remove_pane"
        /\ layout.root = Pane(args'.pane_id))
           => (ret' = FALSE /\ layout' = layout)]_vars

----------------------------------------------------------------------------
(* C39: the length of the pending chord buffer *)

\* the longest chord of the tables: Space f f
MaxChordLen == 3

\* C39: the pending chord buffer never holds more than 3 keys: not between
\* two calls of process_key, and not inside a call, where the buffer of the
\* state has the new key pushed onto it before it is matched
C39_PendingAtMostThreeKeys ==
    /\ Len(key_seq.pending) <= MaxChordLen
    /\ \A key \in InputKeys : Len(Append(key_seq.pending, key)) <= MaxChordLen

\* the two keys of a leader-file chord are buffered, and the third is awaited
C39_Witness ==
    /\ op = "process_key"
    /\ ret = Pending
    /\ key_seq.pending = <<Key_char(" "), Key_char("f")>>

----------------------------------------------------------------------------
(* C33: the order of the panes *)

\* the ids of the rects of calculate_rects, in the order they are listed
RectIds(l, area) ==
    LET rects == Layout_calculate_rects(l, area)
    IN  [i \in 1..Len(rects) |-> rects[i].id]

\* the areas the order is looked at in: the whole terminal, an area with no
\* cell at all, and a column one cell wide, where splits leave empty rects
OrderAreas ==
    {TerminalArea, Rect_new(1, 2, 0, 0), Rect_new(1, 2, 1, MaxSide)}

\* ids with new_id put right after target
InsertedAfter(ids, target, new_id) ==
    SubSeq(ids, 1, Position(ids, target))
        \o <<new_id>>
        \o SubSeq(ids, Position(ids, target) + 1, Len(ids))

\* the Split of the tree that has the leaf id as one of its two children
RECURSIVE ParentOf(_, _)
ParentOf(node, id) ==
    IF node.kind = "Pane" THEN None
    ELSE IF node.first = Pane(id) \/ node.second = Pane(id) THEN Some(node)
    ELSE IF ParentOf(node.first, id) # None THEN ParentOf(node.first, id)
    ELSE ParentOf(node.second, id)

\* C33: calculate_rects lists the panes in the order of pane_ids(), for every
\* area of OrderAreas; and a split_pane(target, new_id, direction) that finds
\* target puts new_id right after target in that order, under a new Split of
\* the given direction with ratio 0.5 whose first child is target, the order
\* of the other panes staying as it was
C33_SplitKeepsPaneOrder ==
    [][/\ \A area \in OrderAreas : RectIds(layout', area) = pane_ids(layout')
       /\ SplitFoundTarget =>
              /\ pane_ids(layout') =
                     InsertedAfter(pane_ids(layout), args'.pane_id, args'.new_pane_id)
              /\ ParentOf(layout'.root, args'.new_pane_id) =
                     Some(Split(args'.direction, Ratio_0_5,
                                Pane(args'.pane_id), Pane(args'.new_pane_id)))]_vars

\* a split put the new pane between its target and a pane that came after it
C33_Witness ==
    /\ op = "split_pane"
    /\ Len(pane_ids(layout)) >= 3
    /\ Position(pane_ids(layout), args.pane_id) > 0
    /\ Position(pane_ids(layout), args.new_pane_id) =
           Position(pane_ids(layout), args.pane_id) + 1
    /\ Position(pane_ids(layout), args.new_pane_id) < Len(pane_ids(layout))

----------------------------------------------------------------------------
(* C32: the place of the file browser *)

\* C32: whenever the file-browser pane is open, calculate_rects gives it a
\* rect that starts at the left edge of the tab area and spans the full
\* height of the area, whatever splits, focus changes and closes came since
\* it was opened
C32_FileBrowserAtLeftEdge ==
    tab.file_browser_pane_id # None =>
        \A area \in Areas :
            \A i \in 1..Len(Layout_calculate_rects(tab.layout, area)) :
                Layout_calculate_rects(tab.layout, area)[i].id =
                        tab.file_browser_pane_id.value
                    => /\ Layout_calculate_rects(tab.layout, area)[i].rect.x = area.x
                       /\ Layout_calculate_rects(tab.layout, area)[i].rect.y = area.y
                       /\ Layout_calculate_rects(tab.layout, area)[i].rect.height =
                              area.height

----------------------------------------------------------------------------
(* C35: the pending indicator *)

\* C35: after every key event handled by handle_event, workspace.pending_keys
\* equals pending_display() of the KeySequenceState: the indicator on screen
\* is empty exactly when no chord key and no count is buffered, for editor
\* panes and the file browser alike
C35_PendingKeysShowBuffer ==
    workspace.pending_keys = pending_display(input_state.key_seq)

----------------------------------------------------------------------------
(* C36: the pane-selection submode and the path that waits for a pane *)

\* the typed letter is the label of no editor pane of the active tab
NoSuchLabel(ws, key) ==
    /\ IsChar(key.code)
    /\ key.code \in AsciiLowercase
    /\ FindLabel(get_editor_panes_with_labels(active(ws)), char_code(key.code)) = None

\* C36: selecting_pane is true exactly when pending_file_path holds a path,
\* before and after every key event; a lowercase letter or Esc typed during
\* the submode clears both, and a letter that is the label of no pane leaves
\* every tab as it was: the file is opened nowhere
C36_SelectingIffPathPending ==
    [][/\ workspace.selecting_pane <=> input_state.pending_file_path # None
       /\ workspace'.selecting_pane <=> input_state'.pending_file_path # None
       /\ (/\ op' = "handle_event"
           /\ workspace.error = None
           /\ workspace.selecting_pane
           /\ EndsSelection(args'.key))
              => /\ ~workspace'.selecting_pane
                 /\ input_state'.pending_file_path = None
                 /\ NoSuchLabel(workspace, args'.key) =>
                        workspace'.tabs = workspace.tabs
      ]_vars

\* Enter in the file browser with two editor panes: the submode is on and
\* the chosen path waits for its pane
C36_Witness ==
    /\ op = "handle_event"
    /\ args.key = Key_new("Enter", NONE)
    /\ workspace.selecting_pane
    /\ input_state.pending_file_path # None
    /\ Len(get_editor_panes_with_labels(active(workspace))) > 1

----------------------------------------------------------------------------
(* C37: the mode of the file-browser pane *)

\* C37: a pane of kind FileBrowser is never in Normal or Insert mode: its
\* mode is FileBrowser, or Command while a command line opened from it is
\* being typed, after any sequence of keys
C37_FileBrowserPaneMode ==
    \A i \in 1..Len(workspace.tabs) :
        \A id \in DOMAIN workspace.tabs[i].panes :
            workspace.tabs[i].panes[id].kind = "FileBrowser"
                => workspace.tabs[i].panes[id].mode \in {"FileBrowser", "Command"}

----------------------------------------------------------------------------
(* SpecFinder: the main loop with the keys that ask for the finder, and    *)
(* the turns of the loop that run it                                       *)

\* the leader chords Space f f, Space f g and Space g, a count, Esc, and
\* Ctrl-W v to have several panes
FinderKeys ==
    {Key_char(c) : c \in {" ", "f", "g", "2", "v"}}
        \cup {Key_new("Esc", NONE), Key_ctrl("w")}

\* a turn of the main loop with one of the keys of FinderKeys
finder_key_event ==
    /\ workspace.pending_finder = None
    /\ main_loop_event(FinderKeys, MaxCommandLen)

\* a turn of the main loop that finds a finder request: the request is
\* taken, the finder runs outside the terminal, and a chosen file is opened
\* in the focused pane; no event is read in this turn
finder_turn ==
    /\ workspace.running
    /\ ret # "panic"
    /\ workspace.pending_finder # None
    /\ \E outcome \in FinderOutcomes(workspace.pending_finder.value) :
           /\ workspace' = finder_result(take_pending_finder(workspace),
                                         workspace.pending_finder.value, outcome)
           /\ op' = "run_finder"
           /\ args' = [request |-> workspace.pending_finder.value,
                       outcome |-> outcome.kind]
           /\ ret' = NoRet
    /\ UNCHANGED <<tab, layout, key_seq, input_state>>

NextFinder ==
    \/ finder_key_event
    \/ finder_turn

SpecFinder == InitHandler /\ [][NextFinder]_vars

\* C34: the pending-finder flag is one-shot: no key event is dispatched
\* while it is set, and a turn that runs the finder comes right after the
\* key event that set the flag, finds the request a FindFile or Grep action
\* left and clears it, so one request runs the finder at most once, also
\* when the action was resolved with a count above 1
C34_FinderRequestIsOneShot ==
    [][/\ op' = "handle_event" => workspace.pending_finder = None
       /\ op' = "run_finder" =>
              /\ op = "handle_event"
              /\ workspace.pending_finder \in {Some("FindFile"), Some("Grep")}
              /\ args'.request = workspace.pending_finder.value
              /\ workspace'.pending_finder = None
      ]_vars

\* the finder has run for a Grep request and the flag is cleared
C34_Witness ==
    /\ op = "run_finder"
    /\ args.request = "Grep"
    /\ workspace.pending_finder = None

----------------------------------------------------------------------------
(* SpecCommand: the main loop with the keys of the command line *)

\* the way into the command line, from an editor pane and from the file
\* browser, the letters of the commands q, vs and of unknown ones, and
\* the keys that edit, run and leave the line
CommandKeys ==
    {Key_char(c) : c \in {":", "q", "v", "s"}}
        \cup {Key_new(code, NONE) : code \in {"Backspace", "Enter", "Esc"}}
        \cup {Key_ctrl("g")}

\* a turn of the main loop with one of the keys of CommandKeys
command_key_event ==
    /\ workspace.pending_finder = None
    /\ main_loop_event(CommandKeys, MaxCommandLineLen)

NextCommand == command_key_event

SpecCommand == InitHandler /\ [][NextCommand]_vars

\* the next key goes to handle_command_mode
InCommandMode ==
    /\ workspace.error = None
    /\ ~workspace.selecting_pane
    /\ Workspace_mode(workspace) = "Command"

\* C31: in Command mode a character key appends to the command buffer;
\* Backspace removes the last character and leaves Command mode exactly
\* when the buffer is then empty; Enter executes the command, and after it
\* the command buffer is empty, the effective mode is not Command and the
\* focused pane is in Normal mode
C31_CommandLineEditing ==
    [][(op' = "handle_event" /\ InCommandMode) =>
           /\ IsChar(args'.key.code) =>
                  workspace'.command_buffer =
                      Append(workspace.command_buffer, args'.key.code)
           /\ args'.key.code = "Backspace" =>
                  /\ workspace'.command_buffer =
                         SubSeq(workspace.command_buffer, 1,
                                Len(workspace.command_buffer) - 1)
                  /\ Workspace_mode(workspace') # "Command"
                         <=> workspace'.command_buffer = <<>>
           /\ args'.key.code = "Enter" =>
                  /\ workspace'.command_buffer = <<>>
                  /\ Workspace_mode(workspace') # "Command"
                  /\ focused_pane(workspace').mode = "Normal"
      ]_vars

\* Backspace took the second of two characters: the line is still open
C31_Witness ==
    /\ op = "handle_event"
    /\ args.key = Key_new("Backspace", NONE)
    /\ Len(workspace.command_buffer) = 1
    /\ Workspace_mode(workspace) = "Command"

====
